---- MODULE Spec2Model ----
(***************************************************************************)
(* Instrument Acquisition Engine of the PR100 measurement system.         *)
(*                                                                         *)
(*   python/Pr100.py        continuous geo-tagged logging (mode "cont")    *)
(*   python/medicion360.py  stationary azimuth sweep      (mode "sweep")   *)
(*                                                                         *)
(* Texts are sequences of one-character strings.  Floating point values    *)
(* are records [t, v]: t = "num" with v the value in hundredths, or one of *)
(* the special values "nan" / "inf" (v = sign), or "none" (Python None),   *)
(* or "err" (the conversion raised ValueError).                            *)
(***************************************************************************)
EXTENDS Integers, Sequences, FiniteSets, TLC

\* ------------------------------------------------------------------ bounds
\* sampling cycles whose queries are explored per run; the boundary of the
\* cycle after the last one is still evaluated
MaxCycles == 1
\* reads per run that time out although the instrument answers later
MaxLate == 1

\* longest text given to extraer_primer_float
MaxTextLen == 5
\* most comma-separated fields of a position record given to parse_gps_data
MaxTokens == 8
\* longest byte stream given to _scpi_recv_block, the two named ones aside
MaxStreamLen == 5
\* longest input of the frequency change
MaxFreqLen == 4

\* ------------------------------------------------------- program constants
\* hundredths of a second; os.environ defaults
READ_TIMEOUT_S == 300
DEFAULT_GPS_WAIT_S == 800
FIX_POLL_S == 50
DEFAULT_PERIOD_CONT == 500
DEFAULT_PERIOD_SWEEP == 100
DBUV_OFFSET == 10700

\* --------------------------------------------------------------- values
None == [t |-> "none", v |-> 0]
NaN == [t |-> "nan", v |-> 0]
Inf(sign) == [t |-> "inf", v |-> sign]
Num(x) == [t |-> "num", v |-> x]
ValueError == [t |-> "err", v |-> 0]

\* x > 0 and x <= 0 as Python evaluates them on floats (both false on nan)
GtZero(x) == (x.t = "num" /\ x.v > 0) \/ (x.t = "inf" /\ x.v > 0)
LeZero(x) == (x.t = "num" /\ x.v <= 0) \/ (x.t = "inf" /\ x.v < 0)
isfinite(x) == x.t = "num"

\* --------------------------------------------------------------- texts
Digits == {"0", "1", "2", "3", "4", "5", "6", "7", "8", "9"}
DigitVal(c) == CASE c = "0" -> 0 [] c = "1" -> 1 [] c = "2" -> 2 [] c = "3" -> 3
                 [] c = "4" -> 4 [] c = "5" -> 5 [] c = "6" -> 6 [] c = "7" -> 7
                 [] c = "8" -> 8 [] c = "9" -> 9
Spaces == {" ", "\n", "\r", "\t"}

\* str.strip()
RECURSIVE LStrip(_)
LStrip(s) == IF s # <<>> /\ Head(s) \in Spaces THEN LStrip(Tail(s)) ELSE s
RECURSIVE RStrip(_)
RStrip(s) == IF s # <<>> /\ s[Len(s)] \in Spaces
             THEN RStrip(SubSeq(s, 1, Len(s) - 1)) ELSE s
Strip(s) == RStrip(LStrip(s))

\* length of the maximal run of digits of s starting at index i
RECURSIVE DigitRun(_, _)
DigitRun(s, i) == IF i <= Len(s) /\ s[i] \in Digits THEN 1 + DigitRun(s, i + 1) ELSE 0

\* value of the digits s[i .. i+n-1]
RECURSIVE DigitsVal(_, _, _)
DigitsVal(s, i, n) == IF n = 0 THEN 0
                      ELSE DigitsVal(s, i, n - 1) * 10 + DigitVal(s[i + n - 1])

\* hundredths denoted by the fraction digits s[i .. i+n-1] (two digits kept)
FracVal(s, i, n) == IF n = 0 THEN 0
                    ELSE IF n = 1 THEN DigitVal(s[i]) * 10
                    ELSE DigitVal(s[i]) * 10 + DigitVal(s[i + 1])

Lower(c) == CASE c = "N" -> "n" [] c = "A" -> "a" [] c = "I" -> "i" [] c = "F" -> "f"
              [] OTHER -> c
LowerSeq(s) == [i \in 1..Len(s) |-> Lower(s[i])]

\* float(text): surrounding whitespace, a sign, then "nan", "inf" or a
\* decimal numeral (digits, optional point, optional digits); anything else
\* raises ValueError.  Exponents and digit separators are not modelled.
\* b is the text after the sign, sg the sign, ni and nf the lengths of the
\* runs of digits before and after the point.
PyNumeral(b, sg, ni, hasPoint, nf) ==
  IF ni + nf > 0 /\ ni + (IF hasPoint THEN 1 + nf ELSE 0) = Len(b)
  THEN Num(sg * (DigitsVal(b, 1, ni) * 100 + FracVal(b, ni + 2, nf)))
  ELSE ValueError
PyFraction(b, sg, ni, hasPoint) ==
  PyNumeral(b, sg, ni, hasPoint, IF hasPoint THEN DigitRun(b, ni + 2) ELSE 0)
PyInteger(b, sg, ni) == PyFraction(b, sg, ni, Len(b) > ni /\ b[ni + 1] = ".")
PyUnsigned(b, sg) ==
  IF LowerSeq(b) = <<"n", "a", "n">> THEN NaN
  ELSE IF LowerSeq(b) = <<"i", "n", "f">> THEN Inf(sg)
  ELSE PyInteger(b, sg, DigitRun(b, 1))
PySigned(s) ==
  IF s # <<>> /\ Head(s) \in {"-", "+"}
  THEN PyUnsigned(Tail(s), IF Head(s) = "-" THEN -1 ELSE 1)
  ELSE PyUnsigned(s, 1)
PyFloat(text) == PySigned(Strip(text))

\* ------------------------------------------------------ response parsers
\* faulty variant of SearchNumeral: the sign is not part of the numeral
RECURSIVE SearchNumeral_Unsigned(_, _)
SearchNumeral_Unsigned(s, i) ==
  IF i > Len(s) THEN 0
  ELSE IF s[i] \in Digits THEN i
  ELSE SearchNumeral_Unsigned(s, i + 1)

\* first index >= i where the pattern -?\d+(?:\.\d+)? matches, 0 if none
RECURSIVE SearchNumeral(_, _)
SearchNumeral(s, i) ==
  IF i > Len(s) THEN 0
  ELSE IF s[i] \in Digits THEN i
  ELSE IF s[i] = "-" /\ i < Len(s) /\ s[i + 1] \in Digits THEN i
  ELSE SearchNumeral(s, i + 1)

\* the text matched by the pattern at index i (greedy): st is the index of
\* the first digit, ni the length of the run of digits there
NumeralEnd(s, st, ni, nf) == st + ni - 1 + (IF nf > 0 THEN 1 + nf ELSE 0)
NumeralFrom(s, i, st, ni) ==
  SubSeq(s, i, NumeralEnd(s, st, ni,
                          IF st + ni <= Len(s) /\ s[st + ni] = "."
                          THEN DigitRun(s, st + ni + 1) ELSE 0))
NumeralDigits(s, i, st) == NumeralFrom(s, i, st, DigitRun(s, st))
NumeralAt(s, i) == NumeralDigits(s, i, IF s[i] = "-" THEN i + 1 ELSE i)

FirstFloatAt(s, i) == IF i = 0 THEN None ELSE PyFloat(NumeralAt(s, i))
extraer_primer_float(s) ==
  IF s = <<>> THEN None ELSE FirstFloatAt(s, SearchNumeral(s, 1))

\* faulty variant of dbuv_to_dbm: the reading is recorded as it comes
dbuv_to_dbm_NoOffset(dbuv) == dbuv
dbuv_to_dbm(dbuv) == Num(dbuv.v - DBUV_OFFSET)

\* s.split(",")
RECURSIVE SplitFrom(_, _, _)
SplitFrom(s, i, cur) ==
  IF i > Len(s) THEN <<cur>>
  ELSE IF s[i] = "," THEN <<cur>> \o SplitFrom(s, i + 1, <<>>)
  ELSE SplitFrom(s, i + 1, Append(cur, s[i]))
Split(s) == SplitFrom(s, 1, <<>>)

\* first index >= i of a part that is one of the two markers, 0 if none
RECURSIVE FirstMarker(_, _, _)
FirstMarker(parts, i, marks) ==
  IF i > Len(parts) THEN 0
  ELSE IF parts[i] \in marks THEN i
  ELSE FirstMarker(parts, i + 1, marks)

\* d + m/60 + s/3600 on float values, in units of 1/360000 degree
DmsInf(infs) == IF \E x, y \in infs : x.v # y.v THEN NaN
                ELSE Inf((CHOOSE x \in infs : TRUE).v)
DmsOf(d, m, s, all) ==
  IF \E x \in all : x.t = "nan" THEN NaN
  ELSE IF \E x \in all : x.t = "inf" THEN DmsInf({x \in all : x.t = "inf"})
  ELSE Num(d.v * 3600 + m.v * 60 + s.v)
Dms(d, m, s) == DmsOf(d, m, s, {d, m, s})

\* faulty variant of Negate: the sign is kept
Negate_Keep(x) == x
Negate(x) == IF x.t = "nan" THEN x ELSE [t |-> x.t, v |-> 0 - x.v]

NoFix == <<None, None>>
StripAll(raw) == [k \in 1..Len(raw) |-> Strip(raw[k])]

\* parse_gps_data, from the inside out: the longitude, the E/W marker, the
\* latitude, the N/S marker, the parts.  NoFix stands for (None, None).
GpsLon(parts, i_ns, lat, i_ew, lon_d, lon_m, lon_s) ==
  IF ValueError \in {lon_d, lon_m, lon_s} THEN NoFix
  ELSE << IF parts[i_ns] = <<"S">> THEN Negate(lat) ELSE lat,
          IF parts[i_ew] = <<"W">> THEN Negate(Dms(lon_d, lon_m, lon_s))
          ELSE Dms(lon_d, lon_m, lon_s) >>
GpsEW(parts, i_ns, lat, i_ew) ==
  IF i_ew = 0 \/ i_ew + 3 > Len(parts) THEN NoFix
  ELSE GpsLon(parts, i_ns, lat, i_ew, PyFloat(parts[i_ew + 1]),
              PyFloat(parts[i_ew + 2]), PyFloat(parts[i_ew + 3]))
GpsLat(parts, i_ns, lat_d, lat_m, lat_s) ==
  IF ValueError \in {lat_d, lat_m, lat_s} THEN NoFix
  ELSE GpsEW(parts, i_ns, Dms(lat_d, lat_m, lat_s),
             FirstMarker(parts, i_ns + 4, {<<"E">>, <<"W">>}))
GpsNS(parts, i_ns) ==
  IF i_ns = 0 \/ i_ns + 3 > Len(parts) THEN NoFix
  ELSE GpsLat(parts, i_ns, PyFloat(parts[i_ns + 1]), PyFloat(parts[i_ns + 2]),
              PyFloat(parts[i_ns + 3]))
GpsParts(parts) == GpsNS(parts, FirstMarker(parts, 1, {<<"N">>, <<"S">>}))
parse_gps_data(s) == IF s = <<>> THEN NoFix ELSE GpsParts(StripAll(Split(s)))

\* ---------------------------------------------------------- block data
\* The capture socket is read through makefile("rwb", buffering=0), a raw
\* stream: read(k) makes one recv and returns what has arrived, at most k
\* bytes, and b"" at end of stream.  A stream is the bytes the instrument
\* sends before it closes; cuts is the set of offsets at which a recv ends
\* because no more bytes have arrived yet.

\* int(bytes): surrounding whitespace, then decimal digits (signs and digit
\* separators are not modelled)
IntOrError(t) ==
  IF t # <<>> /\ DigitRun(t, 1) = Len(t) THEN Num(DigitsVal(t, 1, Len(t)))
  ELSE ValueError
PyInt(text) == IntOrError(Strip(text))

Min(a, b) == IF a <= b THEN a ELSE b
\* the offset at which the recv started at offset pos ends, if not earlier
NextCut(stream, cuts, pos) ==
  IF \E c \in cuts : c > pos
  THEN CHOOSE c \in cuts : c > pos /\ \A d \in cuts : d > pos => c <= d
  ELSE Len(stream)
\* sock_file.read(k) at offset pos
RawRead(stream, cuts, pos, k) ==
  IF k <= 0 \/ pos >= Len(stream) THEN <<>>
  ELSE SubSeq(stream, pos + 1, Min(pos + k, NextCut(stream, cuts, pos)))

\* faulty variant of ReadLine: reads to the end of the stream
ReadLine_ToEnd(stream, pos) == Len(stream)
\* sock_file.readline() at offset pos: the offset after the line
RECURSIVE ReadLine(_, _)
ReadLine(stream, pos) ==
  IF pos >= Len(stream) THEN Len(stream)
  ELSE IF stream[pos + 1] = "\n" THEN pos + 1
  ELSE ReadLine(stream, pos + 1)

\* the outcome of _scpi_recv_block: what it returned or raised, and the
\* offset up to which it consumed the stream
Returned(data, pos) == [st |-> "ok", data |-> data, pos |-> pos]
Raised(exc, pos) == [st |-> exc, data |-> <<>>, pos |-> pos]

\* "while len(data) < blen: chunk = read(blen - len(data))"
RECURSIVE ReadPayload(_, _, _, _, _)
PayloadChunk(stream, cuts, pos, blen, data, chunk) ==
  IF chunk = <<>> THEN Raised("RuntimeError", pos)
  ELSE ReadPayload(stream, cuts, pos + Len(chunk), blen, data \o chunk)
ReadPayload(stream, cuts, pos, blen, data) ==
  IF Len(data) >= blen THEN Returned(data, pos)
  ELSE PayloadChunk(stream, cuts, pos, blen, data,
                    RawRead(stream, cuts, pos, blen - Len(data)))

\* "blen = int(sock_file.read(ndigits))"
BlockLength(stream, cuts, pos, field, blen) ==
  IF blen = ValueError THEN Raised("ValueError", pos + Len(field))
  ELSE ReadPayload(stream, cuts, pos + Len(field), blen.v, <<>>)
BlockLengthField(stream, cuts, pos, field) ==
  BlockLength(stream, cuts, pos, field, PyInt(field))
\* "ndigits = int(sock_file.read(1))"
BlockDigits(stream, cuts, pos, field, ndigits) ==
  IF ndigits = ValueError THEN Raised("ValueError", pos + Len(field))
  ELSE BlockLengthField(stream, cuts, pos + Len(field),
                        RawRead(stream, cuts, pos + Len(field), ndigits.v))
BlockDigitsField(stream, cuts, pos, field) ==
  BlockDigits(stream, cuts, pos, field, PyInt(field))
\* "first = sock_file.read(1)"
BlockFirst(stream, cuts, first) ==
  IF first # <<"#">> THEN Raised("RuntimeError", ReadLine(stream, Len(first)))
  ELSE BlockDigitsField(stream, cuts, 1, RawRead(stream, cuts, 1, 1))
_scpi_recv_block(stream, cuts) == BlockFirst(stream, cuts, RawRead(stream, cuts, 0, 1))

\* ------------------------------------------------------------ formatting
Absent == [f |-> "", dec |-> 0, n |-> 0]
Literal(w) == [f |-> w, dec |-> 0, n |-> 0]
RoundDiv(a, b) == IF a >= 0 THEN (2 * a + b) \div (2 * b) ELSE 0 - ((2 * (0 - a) + b) \div (2 * b))

\* f"{x:.1f}", f"{x:.2f}" of a value in hundredths
\* how a float that is not finite is printed
FmtSpecial(x) == IF x.t = "inf" THEN Literal(IF x.v > 0 THEN "inf" ELSE "-inf")
                 ELSE Literal("nan")
Fmt1(x) == IF x.t = "num" THEN [f |-> "fixed", dec |-> 1, n |-> RoundDiv(x.v, 10)]
           ELSE FmtSpecial(x)
Fmt2(x) == IF x.t = "num" THEN [f |-> "fixed", dec |-> 2, n |-> x.v]
           ELSE FmtSpecial(x)
\* f"{x:.6f}" of a coordinate in units of 1/360000 degree
Fmt6(x) == IF x.t = "num" THEN [f |-> "fixed", dec |-> 6, n |-> RoundDiv(x.v * 25, 9)]
           ELSE FmtSpecial(x)
\* f"{x}" of a float
FmtRepr(x) == IF x.t = "num" THEN [f |-> "repr", dec |-> 2, n |-> x.v]
              ELSE FmtSpecial(x)

\* ------------------------------------------------------- instrument texts
T_MEAS == <<"5", "7", ".", "5">>
T_COMP == <<"1", "2", "3", ".", "4">>
T_ERR == <<"E", "R", "R">>
T_GPS == <<"G", "P", "S", ",", "1", ",", "N", ",", "4", "8", ",", "7", ",",
           "4", "0", ".", "3", "3", ",", "E", ",", "1", "1", ",", "3", "6", ",",
           "4", "7", ".", "4", "2">>
T_NOGPS == <<"G", "P", "S", ",", "0">>
T_IDN == <<"P", "R", "1", "0", "0">>

\* what the instrument may answer to a request of each kind
Answers(kind) == CASE kind = "meas" -> {T_MEAS, T_ERR}
                   [] kind = "gps" -> {T_GPS, T_NOGPS}
                   [] kind = "comp" -> {T_COMP}
                   [] kind = "idn" -> {T_IDN}

\* environment values of SAMPLE_PERIOD ("" = not set) and cadence datagrams
EnvPeriods == { <<>>, <<"2", ".", "5">>, <<"0">>, <<"n", "a", "n">> }
\* values of GPS_WAIT_S: the default, and no wait at all
WaitBudgets == {0, DEFAULT_GPS_WAIT_S}
Payloads == { <<"0">>, <<"-", "3">>, <<"2", ".", "5">>, <<"x">> }

\* hundredths of a second spent per step of a modelled sleep
TickUnit == 250
TicksOf(p) == (p.v + TickUnit - 1) \div TickUnit
\* the time left of a sleep whose timer never fires
Forever == -1

\* ------------------------------------------------------------------ state
VARIABLES
  mode,        \* "cont" (Pr100.py) or "sweep" (medicion360.py)
  cmd_idn,     \* whether the catalog supplies an identification command
  cmd_freq,    \* whether the catalog supplies a frequency-set command
  setup,       \* the set-up commands written to the sampling connection
  pc,          \* position of main()
  q,           \* the query in progress
  PERIODO_S,   \* the cadence
  GPS_WAIT_S,  \* the wait budget of AWAITING_FIX
  stop_ev,     \* the stop event
  out_exists,  \* OUT_PATH exists
  out_lines,   \* content of OUT_PATH
  conn,        \* the sampling connection (reader, writer)
  peer,        \* what happened to the sampling connection at the other end
  transport,   \* the cadence datagram endpoint
  cap_conn,    \* the socket of _fetch_png_via_scpi
  pending,     \* requests the instrument has received and not yet answered
  rxbuf,       \* response lines buffered in the reader
  resp,        \* resp, gps_resp, comp_resp of the current cycle
  idx,         \* cycles completed
  sleep_left,  \* ticks left of the sleep in progress
  elapsed,     \* time since start_wait, capped at GPS_WAIT_S
  fix0,        \* <<lat0, lon0>>
  capturas,    \* capture artifacts (indices)
  frames,      \* frame artifacts (indices)
  cause,       \* why the sampling loop ended
  ret,         \* what main() returned
  nlate,       \* reads that timed out with the answer still to come
  nsamples,    \* sample lines this run has appended to OUT_PATH
  removed,     \* whether OUT_PATH was removed from outside during this run
  op,          \* the library function applied on its own, "none" in a run
  arg,         \* its argument
  res,         \* its result
  current_process, \* server.py: the Main.py process of the last start, 0 = None
  launching,   \* the Main.py processes alive that have not yet run run_equipo
  launched,    \* the Main.py processes alive that have run it
  engines,     \* the Pr100.py processes that are sampling
  reply,       \* the reply to the last request
  nreq         \* the requests served so far

vars == << mode, cmd_idn, cmd_freq, setup, pc, q, PERIODO_S, GPS_WAIT_S, stop_ev, out_exists, out_lines, conn,
           peer, transport, cap_conn, pending, rxbuf, resp, idx, sleep_left,
           elapsed, fix0, capturas, frames, cause, ret, nlate, nsamples,
           removed, op, arg, res,
           current_process, launching, launched, engines, reply, nreq >>
\* the variables of the server's process bookkeeping
svars == << current_process, launching, launched, engines, reply, nreq >>
\* the variables of a run of main()
evars == << mode, cmd_idn, cmd_freq, setup, pc, q, PERIODO_S, GPS_WAIT_S, stop_ev, out_exists, out_lines, conn,
            peer, transport, cap_conn, pending, rxbuf, resp, idx, sleep_left,
            elapsed, fix0, capturas, frames, cause, ret, nlate, nsamples,
            removed >>

\* server.py at start-up: "current_process = None", nothing launched
ServerIdle ==
  /\ current_process = 0
  /\ launching = {}
  /\ launched = {}
  /\ engines = {}
  /\ reply = "none"
  /\ nreq = 0

Modes == {"cont", "sweep"}
NoResp == [k \in {"meas", "gps", "comp"} |-> <<>>]
StaleLine == [k |-> "stale", a |-> Absent, b |-> Absent, c |-> Absent, d |-> Absent]

\* The texts a reply variable of main() can hold, and the parsers' values on
\* them, computed once.
EngineTexts == { <<>>, T_MEAS, T_ERR, T_GPS, T_NOGPS, T_COMP, T_IDN }
GpsOfText == [t \in EngineTexts |-> parse_gps_data(t)]
FloatOfText == [t \in EngineTexts |-> extraer_primer_float(t)]
ParsedGps(t) == IF t \in EngineTexts THEN GpsOfText[t] ELSE parse_gps_data(t)
ParsedFloat(t) == IF t \in EngineTexts THEN FloatOfText[t] ELSE extraer_primer_float(t)

\* module level: PERIODO_S from SAMPLE_PERIOD
DefaultPeriod(m) == Num(IF m = "cont" THEN DEFAULT_PERIOD_CONT ELSE DEFAULT_PERIOD_SWEEP)
PeriodOr(v, dflt) == IF v = ValueError THEN dflt ELSE IF LeZero(v) THEN dflt ELSE v
InitialPeriod(m, env) ==
  IF env = <<>> THEN DefaultPeriod(m) ELSE PeriodOr(PyFloat(env), DefaultPeriod(m))

\* The catalog of a continuous run has neither an identification command
\* (entry 0) nor a frequency-set command (entry 5), or it has both; a sweep
\* run reads neither entry.
InitOf(envs) ==
  /\ ServerIdle
  /\ mode \in Modes
  /\ cmd_idn \in (IF mode = "cont" THEN BOOLEAN ELSE {FALSE})
  /\ cmd_freq = cmd_idn
  /\ setup = <<>>
  /\ \E env \in envs : PERIODO_S = InitialPeriod(mode, env)
  /\ GPS_WAIT_S \in (IF mode = "sweep" THEN WaitBudgets ELSE {DEFAULT_GPS_WAIT_S})
  /\ pc = "boot"
  /\ q = "none"
  /\ stop_ev = FALSE
  /\ out_exists = TRUE
  /\ out_lines = <<StaleLine>>
  /\ conn = "none"
  /\ peer = "up"
  /\ transport = "none"
  /\ cap_conn = "none"
  /\ pending = <<>>
  /\ rxbuf = <<>>
  /\ resp = NoResp
  /\ idx = 0
  /\ sleep_left = 0
  /\ elapsed = 0
  /\ fix0 = NoFix
  /\ capturas = {0}
  /\ frames = {0}
  /\ cause = "none"
  /\ ret = "none"
  /\ nlate = 0
  /\ nsamples = 0
  /\ removed = FALSE
  /\ op = "none"
  /\ arg = <<>>
  /\ res = <<>>
\* ------------------------------------------------------------ the engine
Terminal == {"done", "raised"}
\* positions at which main() is suspended in an await that lets the event
\* loop run other callbacks
AwaitPcs == {"recv", "capture", "cap_fetch", "sleep", "fix_sleep"}
Init == InitOf(EnvPeriods)

\* faulty variant of Truncate: the log of the previous run is kept
Truncate_Keep ==
  /\ pc = "boot"
  /\ out_exists' = TRUE
  /\ out_lines' = out_lines
  /\ capturas' = {}
  /\ frames' = {}
  /\ pc' = IF mode = "cont" THEN "udp" ELSE "connect"
  /\ UNCHANGED << svars, op, arg, res, GPS_WAIT_S, cmd_freq, setup, mode, cmd_idn, q, PERIODO_S, stop_ev, conn, peer, transport,
                  cap_conn, pending, rxbuf, resp, idx, sleep_left, elapsed, fix0,
                  cause, ret, nlate, nsamples, removed >>

\* main(): OUT_PATH.write_text(""), removal of old captures and frames
Truncate ==
  /\ pc = "boot"
  /\ out_exists' = TRUE
  /\ out_lines' = <<>>
  /\ capturas' = {}
  /\ frames' = {}
  /\ pc' = IF mode = "cont" THEN "udp" ELSE "connect"
  /\ UNCHANGED << svars, op, arg, res, GPS_WAIT_S, cmd_freq, setup, mode, cmd_idn, q, PERIODO_S, stop_ev, conn, peer, transport,
                  cap_conn, pending, rxbuf, resp, idx, sleep_left, elapsed, fix0,
                  cause, ret, nlate, nsamples, removed >>

\* faulty variant of OpenUDP: a bind failure propagates out of main()
OpenUDP_Fatal ==
  /\ pc = "udp"
  /\ \E ok \in BOOLEAN :
       IF ok THEN /\ transport' = "open"
                  /\ pc' = "connect"
                  /\ UNCHANGED << ret, cause >>
       ELSE /\ transport' = "none"
            /\ pc' = "raised"
            /\ ret' = "raised"
            /\ cause' = "error"
  /\ UNCHANGED << svars, op, arg, res, GPS_WAIT_S, cmd_freq, setup, mode, cmd_idn, q, PERIODO_S, stop_ev, out_exists, out_lines, conn,
                  peer, cap_conn, pending, rxbuf, resp, idx, sleep_left, elapsed,
                  fix0, capturas, frames, nlate, nsamples, removed >>

\* main(): create_datagram_endpoint; a bind failure is logged
OpenUDP ==
  /\ pc = "udp"
  /\ \E ok \in BOOLEAN : transport' = IF ok THEN "open" ELSE "none"
  /\ pc' = "connect"
  /\ UNCHANGED << svars, op, arg, res, GPS_WAIT_S, cmd_freq, setup, mode, cmd_idn, q, PERIODO_S, stop_ev, out_exists, out_lines, conn,
                  peer, cap_conn, pending, rxbuf, resp, idx, sleep_left, elapsed,
                  fix0, capturas, frames, cause, ret, nlate, nsamples, removed >>

\* faulty variant of Connect: a failed open_connection is passed over
Connect_Swallow ==
  /\ pc = "connect"
  /\ \E ok \in BOOLEAN : conn' = IF ok THEN "open" ELSE conn
  /\ pc' = "ready"
  /\ UNCHANGED << ret, cause >>
  /\ UNCHANGED << svars, op, arg, res, GPS_WAIT_S, cmd_freq, setup, mode, cmd_idn, q, PERIODO_S, stop_ev, out_exists, out_lines,
                  peer, transport, cap_conn, pending, rxbuf, resp, idx, sleep_left,
                  elapsed, fix0, capturas, frames, nlate, nsamples, removed >>

\* main(): open_connection; a failure propagates out of main()
Connect ==
  /\ pc = "connect"
  /\ \E ok \in BOOLEAN :
       IF ok THEN /\ conn' = "open"
                  /\ pc' = "ready"
                  /\ UNCHANGED << ret, cause >>
       ELSE /\ conn' = conn
            /\ pc' = "raised"
            /\ ret' = "raised"
            /\ cause' = "connect"
  /\ UNCHANGED << svars, op, arg, res, GPS_WAIT_S, cmd_freq, setup, mode, cmd_idn, q, PERIODO_S, stop_ev, out_exists, out_lines,
                  peer, transport, cap_conn, pending, rxbuf, resp, idx, sleep_left,
                  elapsed, fix0, capturas, frames, nlate, nsamples, removed >>

\* the set-up commands main() writes before its first query, in their order:
\* *CLS, FORMat:DATA ASCii and, in Pr100.py with a catalog entry 5, cmd_freq
SetupCommands == IF mode = "cont" /\ cmd_freq THEN <<"cls", "fmt", "freq">>
                 ELSE <<"cls", "fmt">>

\* faulty variant of Ready: a failed set-up write propagates out of main()
Ready_Abort ==
  /\ pc = "ready"
  /\ \E n \in 0..Len(SetupCommands) :
       /\ setup' = SubSeq(SetupCommands, 1, n)
       /\ IF n = Len(SetupCommands)
          THEN /\ UNCHANGED << peer, pending, rxbuf, ret, cause >>
               /\ IF mode = "cont"
                  THEN IF cmd_idn THEN pc' = "send" /\ q' = "idn" ELSE pc' = "loop" /\ q' = q
                  ELSE pc' = "fix_loop" /\ q' = q
          ELSE /\ peer' = "reset"
               /\ pending' = <<>>
               /\ rxbuf' = <<>>
               /\ pc' = "raised"
               /\ ret' = "raised"
               /\ cause' = "error"
               /\ q' = q
  /\ elapsed' = 0
  /\ UNCHANGED << svars, op, arg, res, GPS_WAIT_S, cmd_freq, mode, cmd_idn, PERIODO_S, stop_ev, out_exists,
                  out_lines, conn, transport, cap_conn, resp, idx, sleep_left,
                  fix0, capturas, frames, nlate, nsamples, removed >>

\* main(): scpi_write of *CLS and FORMat:DATA ASCii in one try, of cmd_freq
\* in another; a failure is logged.  The writes fail when the peer has reset
\* the connection, from the first write that finds it reset on: n of the
\* commands are written.
Ready ==
  /\ pc = "ready"
  /\ \E n \in 0..Len(SetupCommands) :
       /\ setup' = SubSeq(SetupCommands, 1, n)
       /\ IF n = Len(SetupCommands)
          THEN UNCHANGED << peer, pending, rxbuf >>
          ELSE /\ peer' = "reset"
               /\ pending' = <<>>
               /\ rxbuf' = <<>>
  /\ IF mode = "cont"
     THEN IF cmd_idn THEN pc' = "send" /\ q' = "idn" ELSE pc' = "loop" /\ q' = q
     ELSE pc' = "fix_loop" /\ q' = q
  /\ elapsed' = 0
  /\ UNCHANGED << svars, op, arg, res, GPS_WAIT_S, cmd_freq, mode, cmd_idn, PERIODO_S, stop_ev, out_exists,
                  out_lines, conn, transport, cap_conn, resp, idx, sleep_left,
                  fix0, capturas, frames, cause, ret, nlate, nsamples, removed >>

\* where main() continues after the query q
AfterQuery(k) ==
  CASE k = "idn" -> [pc |-> "loop", q |-> "none"]
    [] k = "fix" -> [pc |-> "fix_eval", q |-> "none"]
    [] k = "meas" -> [pc |-> "send", q |-> IF mode = "cont" THEN "gps" ELSE "comp"]
    [] k = "gps" -> [pc |-> "send", q |-> "comp"]
    [] k = "comp" -> [pc |-> "write", q |-> "none"]

\* the kind of request the query q puts on the wire
ReqKind(k) == IF k = "fix" THEN "gps" ELSE k
\* the variable that receives the response of the query q
RespVar(k) == IF k = "fix" THEN "gps" ELSE k

\* the call site's "except Exception: resp = ''", or the response text
Deliver(text) ==
  /\ resp' = IF q = "idn" THEN resp ELSE [resp EXCEPT ![RespVar(q)] = text]
  /\ pc' = AfterQuery(q).pc
  /\ q' = AfterQuery(q).q

\* scpi_query_line: scpi_write (write + drain)
QuerySendUpTo(cycles) ==
  /\ pc = "send"
  /\ q \in {"idn", "fix"} \/ idx < cycles
  /\ IF peer = "reset"
     THEN /\ Deliver(<<>>)
          /\ UNCHANGED pending
     ELSE /\ pending' = IF peer = "up"
                        THEN Append(pending, [kind |-> ReqKind(q), cyc |-> idx])
                        ELSE pending
          /\ pc' = "recv"
          /\ UNCHANGED << q, resp >>
  /\ UNCHANGED << svars, op, arg, res, GPS_WAIT_S, cmd_freq, setup, mode, cmd_idn, PERIODO_S, stop_ev, out_exists, out_lines, conn,
                  peer, transport, cap_conn, rxbuf, idx, sleep_left, elapsed, fix0,
                  capturas, frames, cause, ret, nlate, nsamples, removed >>
QuerySend == QuerySendUpTo(MaxCycles)

\* scpi_query_line: readline returns the next buffered line
QueryRecvLine ==
  /\ pc = "recv"
  /\ rxbuf # <<>>
  /\ Deliver(Strip(Head(rxbuf).text))
  /\ rxbuf' = Tail(rxbuf)
  /\ UNCHANGED << svars, op, arg, res, GPS_WAIT_S, cmd_freq, setup, mode, cmd_idn, PERIODO_S, stop_ev, out_exists, out_lines, conn,
                  peer, transport, cap_conn, pending, idx, sleep_left, elapsed, fix0,
                  capturas, frames, cause, ret, nlate, nsamples, removed >>

\* scpi_query_line: wait_for raises TimeoutError after READ_TIMEOUT_S; the
\* instrument either never answers the request or answers it later
QueryTimeout ==
  /\ pc = "recv"
  /\ rxbuf = <<>>
  /\ peer = "up"
  /\ \E late \in BOOLEAN :
       IF late
       THEN /\ nlate < MaxLate
            /\ nlate' = nlate + 1
            /\ pending' = pending
       ELSE /\ nlate' = nlate
            /\ pending' = SubSeq(pending, 1, Len(pending) - 1)
  /\ Deliver(<<>>)
  /\ elapsed' = IF q = "fix" /\ elapsed + READ_TIMEOUT_S < GPS_WAIT_S
                THEN elapsed + READ_TIMEOUT_S
                ELSE IF q = "fix" THEN GPS_WAIT_S ELSE elapsed
  /\ UNCHANGED << svars, op, arg, res, GPS_WAIT_S, cmd_freq, setup, mode, cmd_idn, PERIODO_S, stop_ev, out_exists, out_lines, conn,
                  peer, transport, cap_conn, rxbuf, idx, sleep_left, fix0,
                  capturas, frames, cause, ret, nsamples, removed >>

\* scpi_query_line on a dead connection: readline returns b"" at end of
\* file, or raises ConnectionResetError, which the call site catches
QueryConnLost ==
  /\ pc = "recv"
  /\ rxbuf = <<>>
  /\ peer \in {"eof", "reset"}
  /\ Deliver(<<>>)
  /\ UNCHANGED << svars, op, arg, res, GPS_WAIT_S, cmd_freq, setup, mode, cmd_idn, PERIODO_S, stop_ev, out_exists, out_lines, conn,
                  peer, transport, cap_conn, pending, rxbuf, idx, sleep_left,
                  elapsed, fix0, capturas, frames, cause, ret, nlate, nsamples, removed >>
\* faulty variant of StartSleep: the sleep lasts the default period, whatever
\* the cadence is when it begins
StartSleep_DefaultPeriod ==
  \E raises \in (IF PERIODO_S.t = "nan" THEN BOOLEAN ELSE {FALSE}) :
    IF raises
    THEN /\ pc' = "finally"
         /\ cause' = "error"
         /\ sleep_left' = 0
    ELSE /\ pc' = "sleep"
         /\ cause' = cause
         /\ sleep_left' = TicksOf(DefaultPeriod(mode))

\* asyncio.sleep(PERIODO_S): a nan delay either raises ValueError or
\* expires at once, depending on the interpreter; an infinite delay sets a
\* timer that never fires
StartSleep ==
  \E raises \in (IF PERIODO_S.t = "nan" THEN BOOLEAN ELSE {FALSE}) :
    IF raises
    THEN /\ pc' = "finally"
         /\ cause' = "error"
         /\ sleep_left' = 0
    ELSE /\ pc' = "sleep"
         /\ cause' = cause
         /\ sleep_left' = IF PERIODO_S.t = "nan" THEN 0
                          ELSE IF PERIODO_S.t = "inf" THEN Forever
                          ELSE TicksOf(PERIODO_S)

\* faulty variant of StopCheck: a missing log file is not looked at
StopCheck_SignalOnly ==
  /\ pc = "loop"
  /\ IF stop_ev THEN pc' = "finally" /\ cause' = "stop" /\ UNCHANGED << q, resp >>
     ELSE /\ pc' = "send"
          /\ q' = "meas"
          /\ resp' = NoResp
          /\ cause' = cause
  /\ UNCHANGED << svars, op, arg, res, GPS_WAIT_S, cmd_freq, setup, mode, cmd_idn, PERIODO_S, stop_ev, out_exists, out_lines, conn,
                  peer, transport, cap_conn, pending, rxbuf, idx, sleep_left,
                  elapsed, fix0, capturas, frames, ret, nlate, nsamples, removed >>

\* main(): "while not stop_ev.is_set(): if not OUT_PATH.exists(): break"
StopCheck ==
  /\ pc = "loop"
  /\ IF stop_ev THEN pc' = "finally" /\ cause' = "stop" /\ UNCHANGED << q, resp >>
     ELSE IF ~out_exists THEN pc' = "finally" /\ cause' = "removed" /\ UNCHANGED << q, resp >>
     ELSE /\ pc' = "send"
          /\ q' = "meas"
          /\ resp' = NoResp
          /\ cause' = cause
  /\ UNCHANGED << svars, op, arg, res, GPS_WAIT_S, cmd_freq, setup, mode, cmd_idn, PERIODO_S, stop_ev, out_exists, out_lines, conn,
                  peer, transport, cap_conn, pending, rxbuf, idx, sleep_left,
                  elapsed, fix0, capturas, frames, ret, nlate, nsamples, removed >>

\* the values of a continuous cycle: dbm, lat, lon, az
CycleValuesOf(dbuv, pos, az) ==
  [dbm |-> IF dbuv # None THEN dbuv_to_dbm(dbuv) ELSE NaN,
   lat |-> pos[1], lon |-> pos[2], az |-> az]
CycleValues(r) ==
  CycleValuesOf(ParsedFloat(r["meas"]), ParsedGps(r["gps"]), ParsedFloat(r["comp"]))

\* faulty variant of LineOf: a missing bearing is left empty
LineOf_BlankBearing(cv) ==
  [k |-> "sample",
   a |-> FmtRepr(cv.dbm),
   b |-> IF cv.az # None /\ isfinite(cv.az) THEN Fmt1(cv.az) ELSE Absent,
   c |-> IF cv.lat # None /\ isfinite(cv.lat) THEN Fmt6(cv.lat) ELSE Absent,
   d |-> IF cv.lon # None /\ isfinite(cv.lon) THEN Fmt6(cv.lon) ELSE Absent]

\* Pr100.py: the CSV line of a cycle (date and time left out)
LineOf(cv) ==
  [k |-> "sample",
   a |-> FmtRepr(cv.dbm),
   b |-> IF cv.az # None /\ isfinite(cv.az) THEN Fmt1(cv.az) ELSE Literal("no directivo"),
   c |-> IF cv.lat # None /\ isfinite(cv.lat) THEN Fmt6(cv.lat) ELSE Absent,
   d |-> IF cv.lon # None /\ isfinite(cv.lon) THEN Fmt6(cv.lon) ELSE Absent]
ContLine(r) == LineOf(CycleValues(r))

\* the characters of the line: f"{fecha},{hora},{dbm},{az_txt},{lat_txt},{lon_txt}"
DigitChar(d) == CASE d = 0 -> "0" [] d = 1 -> "1" [] d = 2 -> "2" [] d = 3 -> "3"
                  [] d = 4 -> "4" [] d = 5 -> "5" [] d = 6 -> "6" [] d = 7 -> "7"
                  [] d = 8 -> "8" [] d = 9 -> "9"
RECURSIVE NatText(_)
NatText(n) == IF n < 10 THEN <<DigitChar(n)>>
              ELSE Append(NatText(n \div 10), DigitChar(n % 10))
\* the last dec digits of n, zeros included
RECURSIVE FracText(_, _)
FracText(n, dec) == IF dec = 0 THEN <<>>
                    ELSE Append(FracText(n \div 10, dec - 1), DigitChar(n % 10))
RECURSIVE Pow10(_)
Pow10(dec) == IF dec = 0 THEN 1 ELSE 10 * Pow10(dec - 1)
Abs(n) == IF n < 0 THEN 0 - n ELSE n
SignText(n) == IF n < 0 THEN <<"-">> ELSE <<>>
\* f"{x:.1f}", f"{x:.6f}"
FixedText(n, dec) ==
  SignText(n) \o NatText(Abs(n) \div Pow10(dec)) \o <<".">> \o FracText(Abs(n), dec)
\* f"{x}" of a number of hundredths: the shortest fraction, one digit at least
ReprText(n) ==
  SignText(n) \o NatText(Abs(n) \div 100) \o <<".">>
  \o (IF Abs(n) % 10 = 0 THEN <<DigitChar((Abs(n) \div 10) % 10)>>
      ELSE FracText(Abs(n), 2))
WordText(w) ==
  CASE w = "nan" -> <<"n", "a", "n">>
    [] w = "inf" -> <<"i", "n", "f">>
    [] w = "-inf" -> <<"-", "i", "n", "f">>
    [] w = "no directivo" -> <<"n", "o", " ", "d", "i", "r", "e", "c", "t", "i", "v", "o">>
FieldText(x) ==
  CASE x.f = "" -> <<>>
    [] x.f = "fixed" -> FixedText(x.n, x.dec)
    [] x.f = "repr" -> ReprText(x.n)
    [] OTHER -> WordText(x.f)
\* strftime("%Y-%m-%d") and strftime("%H:%M:%S") of some moment
T_FECHA == <<"2", "0", "2", "5", "-", "0", "6", "-", "3", "0">>
T_HORA == <<"1", "2", ":", "0", "0", ":", "0", "0">>
LineText(line) ==
  T_FECHA \o <<",">> \o T_HORA \o <<",">> \o FieldText(line.a) \o <<",">>
  \o FieldText(line.b) \o <<",">> \o FieldText(line.c) \o <<",">> \o FieldText(line.d)

\* OUT_PATH.open("a") followed by write: creates the file when it is missing.
\* The file system is taken to accept the write (an OSError here is logged
\* by the engine and the cycle goes on without the line).
Appended(line) == Append(IF out_exists THEN out_lines ELSE <<>>, line)

\* the line of a cycle in which no query produced a value
EmptyLine ==
  [k |-> "sample", a |-> FmtRepr(NaN), b |-> Literal("no directivo"),
   c |-> Absent, d |-> Absent]

\* faulty variant of AppendLine: a cycle without any value writes no line
AppendLine_SkipEmpty ==
  /\ pc = "write"
  /\ mode = "cont"
  /\ IF ContLine(resp) = EmptyLine
     THEN UNCHANGED << out_lines, out_exists, nsamples >>
     ELSE /\ out_lines' = Appended(ContLine(resp))
          /\ out_exists' = TRUE
          /\ nsamples' = nsamples + 1
  /\ pc' = "capture"
  /\ resp' = NoResp
  /\ UNCHANGED << svars, op, arg, res, GPS_WAIT_S, cmd_freq, setup, mode, cmd_idn, q, PERIODO_S, stop_ev, conn, peer, transport,
                  cap_conn, pending, rxbuf, idx, sleep_left, elapsed, fix0,
                  capturas, frames, cause, ret, nlate, removed >>

\* Pr100.py main(): step 4, the line of the cycle.  The responses are not
\* read again by anything modelled and are forgotten here.
AppendLine ==
  /\ pc = "write"
  /\ mode = "cont"
  /\ out_lines' = Appended(ContLine(resp))
  /\ out_exists' = TRUE
  /\ nsamples' = nsamples + 1
  /\ pc' = "capture"
  /\ resp' = NoResp
  /\ UNCHANGED << svars, op, arg, res, GPS_WAIT_S, cmd_freq, setup, mode, cmd_idn, q, PERIODO_S, stop_ev, conn, peer, transport,
                  cap_conn, pending, rxbuf, idx, sleep_left, elapsed, fix0,
                  capturas, frames, cause, ret, nlate, removed >>

\* guardar_captura_real_o_fallback: the fallback card, whose rendering may
\* itself raise
FallbackCard ==
  \E rendered \in BOOLEAN :
    IF rendered
    THEN /\ capturas' = capturas \cup {idx}
         /\ pc' = "frame"
         /\ cause' = cause
    ELSE /\ capturas' = capturas
         /\ pc' = "finally"
         /\ cause' = "error"

\* _fetch_png_via_scpi: socket.create_connection
CaptureConnect ==
  /\ pc = "capture"
  /\ \E ok \in BOOLEAN :
       IF ok THEN /\ cap_conn' = "open"
                  /\ pc' = "cap_fetch"
                  /\ UNCHANGED << capturas, cause >>
       ELSE /\ cap_conn' = cap_conn
            /\ FallbackCard
  /\ UNCHANGED << svars, op, arg, res, GPS_WAIT_S, cmd_freq, setup, mode, cmd_idn, q, PERIODO_S, stop_ev, out_exists, out_lines, conn,
                  peer, transport, pending, rxbuf, resp, idx, sleep_left, elapsed,
                  fix0, frames, ret, nlate, nsamples, removed >>

\* faulty variant of CaptureFetch: the capture socket is left open
CaptureFetch_Leak ==
  /\ pc = "cap_fetch"
  /\ cap_conn' = cap_conn
  /\ \E outcome \in {"png", "badblock", "badimage"} :
       IF outcome = "png"
       THEN /\ capturas' = capturas \cup {idx}
            /\ pc' = "frame"
            /\ cause' = cause
       ELSE FallbackCard
  /\ UNCHANGED << svars, op, arg, res, GPS_WAIT_S, cmd_freq, setup, mode, cmd_idn, q, PERIODO_S, stop_ev, out_exists, out_lines, conn,
                  peer, transport, pending, rxbuf, resp, idx, sleep_left, elapsed,
                  fix0, frames, ret, nlate, nsamples, removed >>

\* _fetch_png_via_scpi: block transfer, socket closed on leaving the with
\* block; then the PNG to JPEG conversion
CaptureFetch ==
  /\ pc = "cap_fetch"
  /\ cap_conn' = "none"
  /\ \E outcome \in {"png", "badblock", "badimage"} :
       IF outcome = "png"
       THEN /\ capturas' = capturas \cup {idx}
            /\ pc' = "frame"
            /\ cause' = cause
       ELSE FallbackCard
  /\ UNCHANGED << svars, op, arg, res, GPS_WAIT_S, cmd_freq, setup, mode, cmd_idn, q, PERIODO_S, stop_ev, out_exists, out_lines, conn,
                  peer, transport, pending, rxbuf, resp, idx, sleep_left, elapsed,
                  fix0, frames, ret, nlate, nsamples, removed >>

\* save_frame_img, idx += 1, asyncio.sleep(PERIODO_S)
SaveFrame ==
  /\ pc = "frame"
  /\ \E rendered \in BOOLEAN :
       IF rendered
       THEN /\ frames' = frames \cup {idx}
            /\ idx' = idx + 1
            /\ StartSleep
       ELSE /\ pc' = "finally"
            /\ cause' = "error"
            /\ UNCHANGED << frames, idx, sleep_left >>
  /\ UNCHANGED << svars, op, arg, res, GPS_WAIT_S, cmd_freq, setup, mode, cmd_idn, q, PERIODO_S, stop_ev, out_exists, out_lines, conn,
                  peer, transport, cap_conn, pending, rxbuf, resp, elapsed, fix0,
                  capturas, ret, nlate, nsamples, removed >>

\* time passes during asyncio.sleep
Tick ==
  /\ pc = "sleep"
  /\ sleep_left > 0
  /\ sleep_left' = sleep_left - 1
  /\ UNCHANGED << svars, op, arg, res, GPS_WAIT_S, cmd_freq, setup, mode, cmd_idn, pc, q, PERIODO_S, stop_ev, out_exists, out_lines,
                  conn, peer, transport, cap_conn, pending, rxbuf, resp, idx,
                  elapsed, fix0, capturas, frames, cause, ret, nlate, nsamples, removed >>

\* asyncio.sleep returns
Wake ==
  /\ pc = "sleep"
  /\ sleep_left = 0
  /\ pc' = "loop"
  /\ UNCHANGED << svars, op, arg, res, GPS_WAIT_S, cmd_freq, setup, mode, cmd_idn, q, PERIODO_S, stop_ev, out_exists, out_lines, conn,
                  peer, transport, cap_conn, pending, rxbuf, resp, idx, sleep_left,
                  elapsed, fix0, capturas, frames, cause, ret, nlate, nsamples, removed >>

\* main(): the finally block and "return 0"
Finally ==
  /\ pc = "finally"
  /\ conn' = "closed"
  /\ transport' = IF transport = "open" THEN "closed" ELSE transport
  /\ ret' = "0"
  /\ pc' = "done"
  /\ UNCHANGED << svars, op, arg, res, GPS_WAIT_S, cmd_freq, setup, mode, cmd_idn, q, PERIODO_S, stop_ev, out_exists, out_lines, peer,
                  cap_conn, pending, rxbuf, resp, idx, sleep_left, elapsed, fix0,
                  capturas, frames, cause, nlate, nsamples, removed >>
\* ------------------------------------------------- sweep (medicion360.py)
\* the wait loop: "while not stop_ev.is_set(): if not OUT_PATH.exists(): break"
FixCheck ==
  /\ pc = "fix_loop"
  /\ IF stop_ev \/ ~out_exists
     THEN pc' = "header" /\ q' = q /\ elapsed' = 0 /\ resp' = NoResp
     ELSE pc' = "send" /\ q' = "fix" /\ UNCHANGED << elapsed, resp >>
  /\ UNCHANGED << svars, op, arg, res, GPS_WAIT_S, cmd_freq, setup, mode, cmd_idn, PERIODO_S, stop_ev, out_exists, out_lines, conn,
                  peer, transport, cap_conn, pending, rxbuf, idx, sleep_left,
                  fix0, capturas, frames, cause, ret, nlate, nsamples, removed >>

\* whether parse_gps_data returned a fix
HasFix(pos) == pos[1] # None /\ pos[2] # None

\* faulty variant of FixResult: the budget is looked at before the fix
FixResult_BudgetFirst(pos) ==
  IF elapsed >= GPS_WAIT_S THEN fix0' = fix0 /\ pc' = "header" /\ elapsed' = 0
  ELSE IF HasFix(pos) THEN fix0' = pos /\ pc' = "header" /\ elapsed' = 0
  ELSE fix0' = fix0 /\ pc' = "fix_sleep" /\ elapsed' = elapsed

\* the wait loop after the position query: fix, budget spent, or sleep;
\* the clock is not read again once the loop is left
FixResult(pos) ==
  IF HasFix(pos) THEN fix0' = pos /\ pc' = "header" /\ elapsed' = 0
  ELSE IF elapsed >= GPS_WAIT_S THEN fix0' = fix0 /\ pc' = "header" /\ elapsed' = 0
  ELSE fix0' = fix0 /\ pc' = "fix_sleep" /\ elapsed' = elapsed

FixEval ==
  /\ pc = "fix_eval"
  /\ FixResult(ParsedGps(resp["gps"]))
  /\ resp' = NoResp
  /\ UNCHANGED << svars, op, arg, res, GPS_WAIT_S, cmd_freq, setup, mode, cmd_idn, q, PERIODO_S, stop_ev, out_exists, out_lines, conn,
                  peer, transport, cap_conn, pending, rxbuf, idx, sleep_left,
                  capturas, frames, cause, ret, nlate, nsamples, removed >>

\* asyncio.sleep(0.5) of the wait loop
FixSleep ==
  /\ pc = "fix_sleep"
  /\ elapsed' = IF elapsed + FIX_POLL_S < GPS_WAIT_S THEN elapsed + FIX_POLL_S
                ELSE GPS_WAIT_S
  /\ pc' = "fix_loop"
  /\ UNCHANGED << svars, op, arg, res, GPS_WAIT_S, cmd_freq, setup, mode, cmd_idn, q, PERIODO_S, stop_ev, out_exists, out_lines, conn,
                  peer, transport, cap_conn, pending, rxbuf, resp, idx, sleep_left,
                  fix0, capturas, frames, cause, ret, nlate, nsamples, removed >>

\* the first line of the sweep log
HeaderLine(pos) ==
  IF HasFix(pos)
  THEN [k |-> "header", a |-> Fmt6(pos[1]), b |-> Fmt6(pos[2]), c |-> Absent, d |-> Absent]
  ELSE [k |-> "header", a |-> Absent, b |-> Absent, c |-> Absent, d |-> Absent]

\* faulty variant of WriteHeader: without a fix no first line is written
WriteHeader_OnlyFix ==
  /\ pc = "header"
  /\ IF HasFix(fix0)
     THEN out_lines' = Appended(HeaderLine(fix0)) /\ out_exists' = TRUE
     ELSE UNCHANGED << out_lines, out_exists >>
  /\ pc' = "loop"
  /\ UNCHANGED << svars, op, arg, res, GPS_WAIT_S, cmd_freq, setup, mode, cmd_idn, q, PERIODO_S, stop_ev, conn, peer, transport,
                  cap_conn, pending, rxbuf, resp, idx, sleep_left, elapsed, fix0,
                  capturas, frames, cause, ret, nlate, nsamples, removed >>

\* main(): the header write
WriteHeader ==
  /\ pc = "header"
  /\ out_lines' = Appended(HeaderLine(fix0))
  /\ out_exists' = TRUE
  /\ pc' = "loop"
  /\ UNCHANGED << svars, op, arg, res, GPS_WAIT_S, cmd_freq, setup, mode, cmd_idn, q, PERIODO_S, stop_ev, conn, peer, transport,
                  cap_conn, pending, rxbuf, resp, idx, sleep_left, elapsed, fix0,
                  capturas, frames, cause, ret, nlate, nsamples, removed >>

\* the values of a sweep cycle: dbm and az, None when absent
SweepValuesOf(dbuv, az) ==
  [dbm |-> IF dbuv # None THEN dbuv_to_dbm(dbuv) ELSE None, az |-> az]
SweepValues(r) ==
  SweepValuesOf(ParsedFloat(r["meas"]), ParsedFloat(r["comp"]))

\* faulty variant of SweepComplete: the bearing alone decides
SweepComplete_BearingOnly(sv) == sv.az # None /\ isfinite(sv.az)

\* "if az is not None and dbm is not None and isfinite(az) and isfinite(dbm)"
SweepComplete(sv) == sv.az # None /\ sv.dbm # None /\ isfinite(sv.az) /\ isfinite(sv.dbm)

SweepLine(sv) == [k |-> "pair", a |-> Fmt1(sv.az), b |-> Fmt2(sv.dbm), c |-> Absent, d |-> Absent]

\* step 3: the line is written only when both values are there
SweepRecord(sv) ==
  IF SweepComplete(sv)
  THEN /\ out_lines' = Appended(SweepLine(sv))
       /\ out_exists' = TRUE
       /\ nsamples' = nsamples + 1
  ELSE UNCHANGED << out_lines, out_exists, nsamples >>

\* medicion360.py main(): step 3 and the sleep of the cycle
SweepWrite ==
  /\ pc = "write"
  /\ mode = "sweep"
  /\ SweepRecord(SweepValues(resp))
  /\ idx' = idx + 1
  /\ StartSleep
  /\ UNCHANGED << svars, op, arg, res, GPS_WAIT_S, cmd_freq, setup, mode, cmd_idn, q, PERIODO_S, stop_ev, conn, peer, transport,
                  cap_conn, pending, rxbuf, resp, elapsed, fix0, capturas, frames,
                  ret, nlate, removed >>

\* ------------------------------------------------------- the environment
\* _handle_sig: SIGINT, SIGTERM, SIGBREAK
Signal ==
  /\ pc \notin Terminal
  /\ ~stop_ev
  /\ stop_ev' = TRUE
  /\ UNCHANGED << svars, op, arg, res, GPS_WAIT_S, cmd_freq, setup, mode, cmd_idn, pc, q, PERIODO_S, out_exists, out_lines, conn, peer,
                  transport, cap_conn, pending, rxbuf, resp, idx, sleep_left, elapsed,
                  fix0, capturas, frames, cause, ret, nlate, nsamples, removed >>

\* server.py: _remove_potencia_to_end_loop, api_med360_stop
RemoveFile ==
  /\ pc \notin Terminal \cup {"boot"}
  /\ out_exists
  /\ out_exists' = FALSE
  /\ out_lines' = <<>>
  /\ removed' = TRUE
  /\ UNCHANGED << svars, op, arg, res, GPS_WAIT_S, cmd_freq, setup, mode, cmd_idn, pc, q, PERIODO_S, stop_ev, conn, peer, transport,
                  cap_conn, pending, rxbuf, resp, idx, sleep_left, elapsed, fix0,
                  capturas, frames, cause, ret, nlate, nsamples >>

\* the cadence after a datagram with this payload
CadenceOr(cur, v) == IF v # ValueError /\ GtZero(v) THEN v ELSE cur
CadenceAfter(cur, payload) == CadenceOr(cur, PyFloat(payload))

\* faulty variant of Datagram: a new cadence also discards what the sampling
\* connection has received and restarts the cycle count
Datagram_Resync ==
  /\ transport = "open"
  /\ pc \in AwaitPcs
  /\ \E payload \in Payloads : PERIODO_S' = CadenceAfter(PERIODO_S, payload)
  /\ rxbuf' = IF PERIODO_S' = PERIODO_S THEN rxbuf ELSE <<>>
  /\ idx' = IF PERIODO_S' = PERIODO_S THEN idx ELSE 0
  /\ UNCHANGED << svars, op, arg, res, GPS_WAIT_S, cmd_freq, setup, mode, cmd_idn, pc, q, stop_ev, out_exists, out_lines, conn, peer,
                  transport, cap_conn, pending, resp, sleep_left, elapsed,
                  fix0, capturas, frames, cause, ret, nlate, nsamples, removed >>

\* PeriodProtocol.datagram_received
Datagram ==
  /\ transport = "open"
  /\ pc \in AwaitPcs
  /\ \E payload \in Payloads : PERIODO_S' = CadenceAfter(PERIODO_S, payload)
  /\ UNCHANGED << svars, op, arg, res, GPS_WAIT_S, cmd_freq, setup, mode, cmd_idn, pc, q, stop_ev, out_exists, out_lines, conn, peer,
                  transport, cap_conn, pending, rxbuf, resp, idx, sleep_left, elapsed,
                  fix0, capturas, frames, cause, ret, nlate, nsamples, removed >>

\* The instrument and the peer act while a query is in progress: the engine
\* looks at the connection at no other time, so an answer or a failure
\* between two queries is the same answer or failure at the next query.

\* the instrument answers the oldest request it holds
InstrumentAnswer ==
  /\ pending # <<>>
  /\ peer = "up"
  /\ pc \in {"send", "recv"}
  /\ \E t \in Answers(Head(pending).kind) :
       rxbuf' = Append(rxbuf, [text |-> t, kind |-> Head(pending).kind,
                               cyc |-> Head(pending).cyc])
  /\ pending' = Tail(pending)
  /\ UNCHANGED << svars, op, arg, res, GPS_WAIT_S, cmd_freq, setup, mode, cmd_idn, pc, q, PERIODO_S, stop_ev, out_exists, out_lines,
                  conn, peer, transport, cap_conn, resp, idx, sleep_left, elapsed,
                  fix0, capturas, frames, cause, ret, nlate, nsamples, removed >>

\* the peer closes the sampling connection (end of file) or resets it
PeerFails ==
  /\ conn = "open"
  /\ peer = "up"
  /\ pc \in {"send", "recv"}
  /\ \E how \in {"eof", "reset"} :
       /\ peer' = how
       /\ rxbuf' = IF how = "reset" THEN <<>> ELSE rxbuf
  /\ pending' = <<>>
  /\ UNCHANGED << svars, op, arg, res, GPS_WAIT_S, cmd_freq, setup, mode, cmd_idn, pc, q, PERIODO_S, stop_ev, out_exists, out_lines,
                  conn, transport, cap_conn, resp, idx, sleep_left, elapsed, fix0,
                  capturas, frames, cause, ret, nlate, nsamples, removed >>

Next ==
  \/ Truncate \/ OpenUDP \/ Connect \/ Ready
  \/ QuerySend \/ QueryRecvLine \/ QueryTimeout \/ QueryConnLost
  \/ StopCheck \/ AppendLine \/ CaptureConnect \/ CaptureFetch \/ SaveFrame
  \/ Tick \/ Wake \/ Finally
  \/ FixCheck \/ FixEval \/ FixSleep \/ WriteHeader \/ SweepWrite
  \/ Signal \/ RemoveFile \/ Datagram
  \/ InstrumentAnswer \/ PeerFails

Spec == Init /\ [][Next]_vars

\* ------------------------------------------------ the sweep engine, fair
\* A run of medicion360.py in which main() goes on whenever it can: the
\* event loop resumes it when a line has arrived, when a read has timed out
\* and when a sleep has expired.  The signal, the removal of the file, the
\* instrument and the peer are under no obligation.
InitSweep == Init /\ mode = "sweep"
MainSweep ==
  \/ Truncate \/ Connect \/ Ready
  \/ QuerySend \/ QueryRecvLine \/ QueryTimeout \/ QueryConnLost
  \/ FixCheck \/ FixEval \/ FixSleep \/ WriteHeader
  \/ StopCheck \/ SweepWrite \/ Tick \/ Wake \/ Finally
NextSweep == MainSweep \/ Signal \/ RemoveFile \/ InstrumentAnswer \/ PeerFails
SpecSweep == InitSweep /\ [][NextSweep]_vars /\ WF_vars(MainSweep)

\* --------------------------------------------- both engines, fair
\* A run of either engine in which main() goes on whenever it can, started
\* with SAMPLE_PERIOD unset or set to "inf", which /ejecutar-script and
\* /api/med360/start pass on as they do any value above zero.
CancelPeriods == { <<>>, <<"i", "n", "f">> }
InitCancel == InitOf(CancelPeriods)
MainCont == OpenUDP \/ AppendLine \/ CaptureConnect \/ CaptureFetch \/ SaveFrame
NextCancel ==
  \/ MainSweep \/ MainCont
  \/ Signal \/ RemoveFile \/ Datagram \/ InstrumentAnswer \/ PeerFails
SpecCancel == InitCancel /\ [][NextCancel]_vars /\ WF_vars(MainSweep \/ MainCont)

\* ------------------------------------ the continuous engine, one cycle more
\* A run of Pr100.py with SAMPLE_PERIOD unset and no identification command
\* in the catalog, followed for one cycle more than the other runs.
InitLong == InitOf({ <<>> }) /\ mode = "cont" /\ ~cmd_idn
NextLong ==
  \/ Truncate \/ OpenUDP \/ Connect \/ Ready
  \/ QuerySendUpTo(MaxCycles + 1) \/ QueryRecvLine \/ QueryTimeout \/ QueryConnLost
  \/ StopCheck \/ AppendLine \/ CaptureConnect \/ CaptureFetch \/ SaveFrame
  \/ Tick \/ Wake \/ Finally
  \/ Signal \/ RemoveFile \/ Datagram
  \/ InstrumentAnswer \/ PeerFails
SpecLong == InitLong /\ [][NextLong]_vars

\* ------------------------------------- the library functions on their own
\* ",".join(tokens)
RECURSIVE Join(_)
Join(tokens) ==
  IF tokens = <<>> THEN <<>>
  ELSE IF Len(tokens) = 1 THEN tokens[1]
  ELSE tokens[1] \o <<",">> \o Join(Tail(tokens))

\* texts with digits, sign, point and other characters
FloatChars == {"-", "7", "0", ".", "x"}

\* position records: fields in any order and number, and well-ordered
\* records over a range of degrees, minutes and seconds
TokN == <<"N">>
TokS == <<"S">>
TokE == <<"E">>
TokW == <<"W">>
Tok7 == <<"7">>
TokX == <<"x">>
TokNan == <<"n", "a", "n">>
FieldSets == { {TokN, TokE, Tok7, TokX}, {TokS, TokW, Tok7, TokNan} }
LatDegrees == { <<"0">>, <<"8", "9">>, <<"9", "0">>, <<"9", "1">> }
LonDegrees == { <<"0">>, <<"1", "7", "9">>, <<"1", "8", "0">>, <<"1", "8", "1">> }
Sixtieths == { <<"0">>, <<"5", "9">>, <<"5", "9", ".", "9", "9">>, <<"6", "0">> }
DmsRecords ==
  { <<ns, d1, m1, s1, ew, d2, m2, s2>> :
      ns \in {TokN, TokS}, d1 \in LatDegrees, m1 \in Sixtieths, s1 \in Sixtieths,
      ew \in {TokE, TokW}, d2 \in LonDegrees, m2 \in Sixtieths, s2 \in Sixtieths }

\* byte streams: short ones over the bytes that matter to the block format,
\* and the two streams of the block examples
Hello == <<"H", "E", "L", "L", "O", "W", "O", "R", "L", "D", "!">>
Hello11 == <<"#", "2", "1", "1">> \o Hello
Hello12 == <<"#", "2", "1", "2">> \o Hello
StreamBytes == {"#", "1", "2", "A", "\n"}
CutsOf(stream) == SUBSET (1..(Len(stream) - 1))

\* no run of main(): the engine is not started
Unloaded ==
  /\ ServerIdle
  /\ mode = "none"
  /\ cmd_idn = FALSE
  /\ cmd_freq = FALSE
  /\ setup = <<>>
  /\ pc = "unloaded"
  /\ q = "none"
  /\ PERIODO_S = None
  /\ GPS_WAIT_S = DEFAULT_GPS_WAIT_S
  /\ stop_ev = FALSE
  /\ out_exists = FALSE
  /\ out_lines = <<>>
  /\ conn = "none"
  /\ peer = "up"
  /\ transport = "none"
  /\ cap_conn = "none"
  /\ pending = <<>>
  /\ rxbuf = <<>>
  /\ resp = NoResp
  /\ idx = 0
  /\ sleep_left = 0
  /\ elapsed = 0
  /\ fix0 = NoFix
  /\ capturas = {}
  /\ frames = {}
  /\ cause = "none"
  /\ ret = "none"
  /\ nlate = 0
  /\ nsamples = 0
  /\ removed = FALSE

\* one call, its argument drawn from the texts up to MaxTextLen characters,
\* the records up to MaxTokens fields, the well-ordered records, the streams
\* up to MaxStreamLen bytes and the two example streams
InitLib ==
  /\ Unloaded
  /\ op = "none"
  /\ res = <<>>
  /\ \/ \E k \in 0..MaxTextLen : \E t \in [1..k -> FloatChars] :
          arg = [f |-> "extraer_primer_float", text |-> t]
     \/ \E F \in FieldSets : \E k \in 0..MaxTokens : \E r \in [1..k -> F] :
          arg = [f |-> "parse_gps_data", tokens |-> r]
     \/ \E r \in DmsRecords :
          arg = [f |-> "parse_gps_data", tokens |-> r]
     \/ \E k \in 0..MaxStreamLen : \E b \in [1..k -> StreamBytes] :
          arg = [f |-> "_scpi_recv_block", stream |-> b]
     \/ \E b \in {Hello11, Hello12} :
          arg = [f |-> "_scpi_recv_block", stream |-> b]

\* extraer_primer_float(text)
CallFirstFloat ==
  /\ op = "none"
  /\ arg.f = "extraer_primer_float"
  /\ op' = arg.f
  /\ res' = extraer_primer_float(arg.text)
  /\ UNCHANGED << arg, evars, svars >>

\* parse_gps_data(record)
CallParseGps ==
  /\ op = "none"
  /\ arg.f = "parse_gps_data"
  /\ op' = arg.f
  /\ res' = parse_gps_data(Join(arg.tokens))
  /\ UNCHANGED << arg, evars, svars >>

\* _scpi_recv_block(sock_file), the stream arriving in any pieces
CallRecvBlock ==
  /\ op = "none"
  /\ arg.f = "_scpi_recv_block"
  /\ op' = arg.f
  /\ \E c \in CutsOf(arg.stream) :
       res' = [cuts |-> c, out |-> _scpi_recv_block(arg.stream, c)]
  /\ UNCHANGED << arg, evars, svars >>

NextLib == CallFirstFloat \/ CallParseGps \/ CallRecvBlock
SpecLib == InitLib /\ [][NextLib]_vars

\* ------------------------------------------------------ frequency change
\* Cambiar_freq.py: enviar_comando_frecuencia, called directly or through the
\* route /cambiar_frecuencia of server.py, which validates the same way first.

\* a decimal digit that is not ASCII (ARABIC-INDIC DIGIT FOUR), as one character
AraFour == "U+0664"
\* what \d matches in a str pattern: the decimal digits of every script
ReDigits == Digits \cup {AraFour}
RECURSIVE ReDigitRun(_, _)
ReDigitRun(s, i) ==
  IF i <= Len(s) /\ s[i] \in ReDigits THEN 1 + ReDigitRun(s, i + 1) ELSE 0
\* re.fullmatch(r"\d+(\.\d+)?", s): ni is the length of the first run of digits
FullMatchFrom(s, ni) ==
  /\ ni > 0
  /\ \/ ni = Len(s)
     \/ /\ ni + 1 < Len(s)
        /\ s[ni + 1] = "."
        /\ ni + 1 + ReDigitRun(s, ni + 2) = Len(s)
FullMatch(s) == FullMatchFrom(s, ReDigitRun(s, 1))
\* str.replace(",", ".")
CommaToPoint(s) == [k \in 1..Len(s) |-> IF s[k] = "," THEN "." ELSE s[k]]
\* str(freq_mhz or "").strip().replace(",", ".")
NormalFreq(text) == CommaToPoint(Strip(text))
\* str.encode("ascii", errors="ignore")
IsAscii(c) == c # AraFour
Encode(s) == SelectSeq(s, IsAscii)

T_CLS == <<"*", "C", "L", "S">>
T_FREQ_ECHO == <<"F", "R", "E", "Q", "?">>
cmd_set(freq) == <<"F", "R", "E", "Q", " ">> \o freq \o <<"M", "H", "z">>
\* the three lines of the operation, in the order of the calls
FreqCommands(freq) == << T_CLS, cmd_set(freq), T_FREQ_ECHO >>

\* the first line the instrument may answer: an echo, or a blank line
Echoes == { <<"4", "3", "3">>, <<" ", "4", " ">>, <<" ">> }

\* the outcomes of the operation
NoOutcome == [kind |-> "none", text |-> <<>>]
Returns(text) == [kind |-> "return", text |-> text]
Raises(exc) == [kind |-> exc, text |-> <<>>]
T_OK == <<"O", "K">>
\* resp or "OK"
OrOK(text) == IF text = <<>> THEN T_OK ELSE text

\* conn: the connection of the operation; sent: the lines written to it
FreqIdle == [conn |-> "none", sent |-> <<>>, out |-> NoOutcome]

InitFreq ==
  /\ Unloaded
  /\ op = "none"
  /\ res = FreqIdle
  /\ \E k \in 0..MaxFreqLen :
       \E t \in [1..k -> {"4", AraFour, ".", ",", " ", "x"}] :
         \E route \in BOOLEAN :
           arg = [f |-> IF route THEN "cambiar_frecuencia"
                        ELSE "enviar_comando_frecuencia",
                  text |-> t]

\* the validation: re.fullmatch on the normalised input, ValueError (or the
\* answer 400 of the route) when it does not match
FreqValidate ==
  /\ op = "none"
  /\ arg.f \in {"cambiar_frecuencia", "enviar_comando_frecuencia"}
  /\ IF FullMatch(NormalFreq(arg.text))
     THEN /\ op' = "freq_connect"
          /\ res' = res
     ELSE /\ op' = "freq_done"
          /\ res' = [res EXCEPT !.out = Raises(IF arg.f = "cambiar_frecuencia"
                                               THEN "400" ELSE "ValueError")]
  /\ UNCHANGED << arg, evars, svars >>

\* what the caller gets when the operation raises exc: the exception, or the
\* answer 500 of the route
Failure(exc) == Raises(IF arg.f = "cambiar_frecuencia" THEN "500" ELSE exc)

\* socket.create_connection((HOST, PORT), timeout=5.0)
FreqConnect ==
  /\ op = "freq_connect"
  /\ \E ok \in BOOLEAN :
       IF ok
       THEN /\ op' = "freq_write"
            /\ res' = [res EXCEPT !.conn = "open"]
       ELSE /\ op' = "freq_done"
            /\ res' = [res EXCEPT !.out = Failure("OSError")]
  /\ UNCHANGED << arg, evars, svars >>

\* _write_line, three times; a failed write leaves the with block, which
\* closes the connection
FreqWrite ==
  /\ op = "freq_write"
  /\ \E ok \in BOOLEAN :
       IF ok
       THEN /\ res' = [res EXCEPT !.sent =
                         Append(@, Encode(FreqCommands(NormalFreq(arg.text))[Len(@) + 1]))]
            /\ op' = IF Len(res.sent) = 2 THEN "freq_read" ELSE "freq_write"
       ELSE /\ res' = [res EXCEPT !.conn = "closed", !.out = Failure("OSError")]
            /\ op' = "freq_done"
  /\ UNCHANGED << arg, evars, svars >>

\* f.readline() on the socket with its timeout of 5 s: a line, the end of the
\* stream (b""), or TimeoutError; then the with block closes the connection
FreqRead ==
  /\ op = "freq_read"
  /\ \/ \E line \in Echoes :
          res' = [res EXCEPT !.conn = "closed", !.out = Returns(OrOK(Strip(line)))]
     \/ res' = [res EXCEPT !.conn = "closed", !.out = Returns(OrOK(<<>>))]
     \/ res' = [res EXCEPT !.conn = "closed", !.out = Failure("TimeoutError")]
  /\ op' = "freq_done"
  /\ UNCHANGED << arg, evars, svars >>

NextFreq == FreqValidate \/ FreqConnect \/ FreqWrite \/ FreqRead
SpecFreq == InitFreq /\ [][NextFreq]_vars

\* --------------------------------------------- the command catalog
\* longest list of commands of the instrument in a catalog
MaxEntries == 5

\* the defaults of the three queries and of the capture
DefaultMeasure ==
  << "S", "E", "N", "S", "e", ":", "D", "A", "T", "A", "?", " ", "\"", "V",
       "O", "L", "T", ":", "A", "C", "\"" >>
DefaultGps ==
  << "S", "Y", "S", "T", ":", "G", "P", "S", ":", "D", "A", "T", "A", "?" >>
DefaultCompass ==
  << "S", "Y", "S", "T", ":", "C", "O", "M", "P", "a", "s", "s", ":", "D",
       "A", "T", "A", "?" >>
DefaultCapture ==
  << "D", "I", "S", "P", "l", "a", "y", ":", "W", "I", "N", "D", "o", "w",
       ":", "F", "E", "T", "c", "h", "?" >>
\* the text the capture heuristic looks for
T_FETCH_KEY ==
  << "D", "I", "S", "P", "L", "A", "Y", ":", "W", "I", "N", "D", "O", "W",
       ":", "F", "E", "T", "C", "H", "?" >>

\* entries of a catalog: a blank one, a command with spaces around it, a
\* capture command in another case with spaces around and inside it, and one
\* with a tab inside it
E_BLANK ==
  << " ", "\t" >>
E_CMD ==
  << " ", "A", "?", "\n" >>
E_FETCH ==
  << " ", "D", "i", "s", "p", "l", "a", "y", " ", ":", "W", "I", "N", "D",
       "O", "W", ":", "f", "e", "t", "c", "h", "?", " " >>
E_TAB ==
  << "D", "I", "S", "P", "L", "A", "Y", ":", "\t", "W", "I", "N", "D", "O",
       "W", ":", "F", "E", "T", "C", "H", "?" >>
Entries == {E_BLANK, E_CMD, E_FETCH, E_TAB}

\* the catalog file: unreadable, without the instrument, or with its commands
Unreadable == [kind |-> "unreadable", commands |-> <<>>]
NoInstrument == [kind |-> "absent", commands |-> <<>>]
WithCommands(cmds) == [kind |-> "present", commands |-> cmds]

\* os.environ.get("CAPTURE_CMD_INDEX"): None, or the text of the variable
Unset == [set |-> FALSE, text |-> <<>>]
SetTo(text) == [set |-> TRUE, text |-> text]
IndexTexts == { <<"0">>, <<" ", "3", " ">>, <<"5">>, <<"-", "1">>, <<"x">> }

\* obtener_comandos_por_equipo("PR100"): the commands of the instrument, []
\* when the file cannot be read or has no such instrument
obtener_comandos_por_equipo(catalog) ==
  IF catalog.kind = "present" THEN catalog.commands ELSE <<>>

\* cmds[index] of a Python list: negative indices count from the end
PyItem(cmds, index) ==
  IF index >= 0 THEN cmds[index + 1] ELSE cmds[Len(cmds) + index + 1]
\* c if c else default
IfText(c, default) == IF c # <<>> THEN c ELSE default
\* faulty variant of get_cmd: the entry is not trimmed
get_cmd_Untrimmed(cmds, index, default) ==
  IF index < Len(cmds) /\ index >= 0 - Len(cmds)
  THEN IfText(PyItem(cmds, index), default)
  ELSE default
\* get_cmd(cmds, index, default) with an integer index: the IndexError of an
\* index below -len(cmds) is swallowed
get_cmd(cmds, index, default) ==
  IF index < Len(cmds) /\ index >= 0 - Len(cmds)
  THEN IfText(Strip(PyItem(cmds, index)), default)
  ELSE default

\* the three query commands main() of Pr100.py selects
MainCommands(cmds) ==
  << get_cmd(cmds, 2, DefaultMeasure), get_cmd(cmds, 3, DefaultGps), get_cmd(cmds, 4, DefaultCompass) >>
SelectCommands(catalog) == MainCommands(obtener_comandos_por_equipo(catalog))

\* obtener_comandos_pr100() of medicion360.py
CommandsOf(catalog) == IF catalog.kind = "present" THEN catalog.commands ELSE <<>>
EntryOr(cmds, n, default) ==
  IF Len(cmds) > n /\ Strip(cmds[n + 1]) # <<>> THEN Strip(cmds[n + 1]) ELSE default
ThreeCommands(cmds) ==
  << EntryOr(cmds, 2, DefaultMeasure), EntryOr(cmds, 3, DefaultGps), EntryOr(cmds, 4, DefaultCompass) >>
obtener_comandos_pr100(catalog) == ThreeCommands(CommandsOf(catalog))

\* int(text) of a str: surrounding whitespace, an optional sign, decimal
\* digits (digit separators and other scripts are not modelled)
Unsigned(t) == IF t # <<>> /\ Head(t) \in {"+", "-"} THEN Tail(t) ELSE t
Signed(t, n) ==
  IF n = ValueError THEN ValueError
  ELSE IF Head(t) = "-" THEN Num(0 - n.v) ELSE n
IntOfStr(text) == Signed(Strip(text), IntOrError(Unsigned(Strip(text))))

\* str.upper() on the letters of the entries
LowerLetters == <<"a", "c", "d", "e", "f", "h", "i", "l", "n", "o", "p", "s", "t", "w", "y">>
UpperLetters == <<"A", "C", "D", "E", "F", "H", "I", "L", "N", "O", "P", "S", "T", "W", "Y">>
UpperChar(c) ==
  IF \E k \in 1..Len(LowerLetters) : LowerLetters[k] = c
  THEN UpperLetters[CHOOSE k \in 1..Len(LowerLetters) : LowerLetters[k] = c]
  ELSE c
Upper(s) == [k \in 1..Len(s) |-> UpperChar(s[k])]
\* str.replace(" ", "")
NotSpace(c) == c # " "
RemoveSpaces(s) == SelectSeq(s, NotSpace)
\* key in s
Contains(s, key) ==
  \E i \in 1..(Len(s) - Len(key) + 1) : SubSeq(s, i, i + Len(key) - 1) = key
\* the test of the heuristic on one entry
LooksLikeFetch(c) == Contains(RemoveSpaces(Upper(Strip(c))), T_FETCH_KEY)

\* find_capture_cmd, tier 1: the entry at int(CAPTURE_CMD_INDEX); <<>> stands
\* for None, which the test "if c" treats like the empty text
NoCommand == <<>>
ByIndexAt(cmds, i) == IF i = ValueError THEN NoCommand ELSE get_cmd(cmds, i.v, NoCommand)
ByIndex(cmds, env) == IF env.set THEN ByIndexAt(cmds, IntOfStr(env.text)) ELSE NoCommand
\* tier 2: the first entry the heuristic accepts, trimmed; tier 3: the default
ByHeuristic(cmds, default) ==
  IF \E k \in 1..Len(cmds) : LooksLikeFetch(cmds[k])
  THEN Strip(cmds[CHOOSE k \in 1..Len(cmds) :
                    /\ LooksLikeFetch(cmds[k])
                    /\ \A j \in 1..(k - 1) : ~LooksLikeFetch(cmds[j])])
  ELSE default
find_capture_cmd(cmds, env, default) ==
  IfText(ByIndex(cmds, env), ByHeuristic(cmds, default))

\* one call of a selection, on a catalog and a capture index drawn from the
\* catalogs of up to MaxEntries entries and the index texts
InitCatalog ==
  /\ Unloaded
  /\ op = "none"
  /\ res = <<>>
  /\ \E env \in {Unset} \union {SetTo(t) : t \in IndexTexts} :
       \/ \E c \in {Unreadable, NoInstrument} : arg = [catalog |-> c, env |-> env]
       \/ \E k \in 0..MaxEntries : \E cmds \in [1..k -> Entries] :
            arg = [catalog |-> WithCommands(cmds), env |-> env]

\* main() of Pr100.py: cmd_measure, cmd_gps, cmd_compass
CallSelectCommands ==
  /\ op = "none"
  /\ op' = "get_cmd"
  /\ res' = SelectCommands(arg.catalog)
  /\ UNCHANGED << arg, evars, svars >>

\* main() of medicion360.py: obtener_comandos_pr100()
CallObtenerComandos ==
  /\ op = "none"
  /\ op' = "obtener_comandos_pr100"
  /\ res' = obtener_comandos_pr100(arg.catalog)
  /\ UNCHANGED << arg, evars, svars >>

\* main() of Pr100.py: cmd_capture
CallFindCapture ==
  /\ op = "none"
  /\ op' = "find_capture_cmd"
  /\ res' = find_capture_cmd(obtener_comandos_por_equipo(arg.catalog), arg.env, DefaultCapture)
  /\ UNCHANGED << arg, evars, svars >>

NextCatalog == CallSelectCommands \/ CallObtenerComandos \/ CallFindCapture
SpecCatalog == InitCatalog /\ [][NextCatalog]_vars

\* ------------------------------------- the engine and a frequency change
\* A run of the engine during which the server performs one frequency
\* change: the two are separate processes connected to the same instrument,
\* so their steps interleave freely.  The engine starts with its default
\* cadence and, in continuous mode, with a complete catalog.
InitShared ==
  /\ ServerIdle
  /\ mode \in Modes
  /\ cmd_idn = (mode = "cont")
  /\ cmd_freq = cmd_idn
  /\ setup = <<>>
  /\ PERIODO_S = InitialPeriod(mode, <<>>)
  /\ GPS_WAIT_S = DEFAULT_GPS_WAIT_S
  /\ pc = "boot"
  /\ q = "none"
  /\ stop_ev = FALSE
  /\ out_exists = TRUE
  /\ out_lines = <<StaleLine>>
  /\ conn = "none"
  /\ peer = "up"
  /\ transport = "none"
  /\ cap_conn = "none"
  /\ pending = <<>>
  /\ rxbuf = <<>>
  /\ resp = NoResp
  /\ idx = 0
  /\ sleep_left = 0
  /\ elapsed = 0
  /\ fix0 = NoFix
  /\ capturas = {0}
  /\ frames = {0}
  /\ cause = "none"
  /\ ret = "none"
  /\ nlate = 0
  /\ nsamples = 0
  /\ removed = FALSE
  /\ op = "none"
  /\ arg = [f |-> "enviar_comando_frecuencia", text |-> <<"4", "3", "3">>]
  /\ res = FreqIdle
NextShared == Next \/ NextFreq
SpecShared == InitShared /\ [][NextShared]_vars


\* ------------------------------------------------ the server's start and stop
\* server.py keeps in current_process the handle of the Main.py process it
\* started last.  Main.py starts run_equipo in a process of its own, which
\* starts Pr100.py in a new process group and returns; Main.py then ends,
\* and Pr100.py goes on sampling.  A process is named by the number of the
\* request that started it.
MaxRequests == 4

\* "current_process is not None and current_process.poll() is None"
MainRunning == current_process # 0 /\ current_process \in (launching \cup launched)

\* POST /ejecutar-script: refused while the Main.py of the last start is
\* still a process, and otherwise a new Main.py is started
ejecutar_script ==
  /\ nreq < MaxRequests
  /\ nreq' = nreq + 1
  /\ IF MainRunning
     THEN /\ reply' = "rejected"
          /\ UNCHANGED << current_process, launching >>
     ELSE /\ reply' = "started"
          /\ current_process' = nreq + 1
          /\ launching' = launching \cup {nreq + 1}
  /\ UNCHANGED << launched, engines, op, arg, res, evars >>

\* Main.py main() and run_equipo: Popen of python/Pr100.py with
\* subprocess.CREATE_NEW_PROCESS_GROUP, a name that exists on Windows only:
\* elsewhere run_equipo raises and no Pr100.py is started
run_equipo ==
  \E m \in launching, spawned \in BOOLEAN :
    /\ launching' = launching \ {m}
    /\ launched' = launched \cup {m}
    /\ engines' = IF spawned THEN engines \cup {m} ELSE engines
    /\ UNCHANGED << current_process, reply, nreq, op, arg, res, evars >>

\* Main.py ends once run_equipo has returned
MainExits ==
  \E m \in launched :
    /\ launched' = launched \ {m}
    /\ UNCHANGED << current_process, launching, engines, reply, nreq, op, arg, res, evars >>

\* Pr100.py main() returns: a signal from its console, the log removed, an
\* error
EngineEnds ==
  \E e \in engines :
    /\ engines' = engines \ {e}
    /\ UNCHANGED << current_process, launching, launched, reply, nreq, op, arg, res, evars >>

\* _stop_current_process_if_any: CTRL_BREAK_EVENT to the group of Main.py,
\* wait, terminate; Pr100.py is in a group of its own and is sent nothing.
\* A Main.py stopped before run_equipo has run may or may not have started
\* its Pr100.py by then.
StopCurrent ==
  IF MainRunning
  THEN /\ launching' = launching \ {current_process}
       /\ launched' = launched \ {current_process}
       /\ \E started \in (IF current_process \in launching THEN BOOLEAN ELSE {FALSE}) :
            engines' = IF started THEN engines \cup {current_process} ELSE engines
  ELSE UNCHANGED << launching, launched, engines >>

\* POST /detener-script
detener_script ==
  /\ nreq < MaxRequests
  /\ nreq' = nreq + 1
  /\ StopCurrent
  /\ current_process' = 0
  /\ reply' = "stopped"
  /\ UNCHANGED << op, arg, res, evars >>

InitServer == Unloaded /\ op = "none" /\ arg = <<>> /\ res = <<>>
NextServer == ejecutar_script \/ detener_script \/ run_equipo \/ MainExits \/ EngineEnds
SpecServer == InitServer /\ [][NextServer]_vars

\* ------------------------------------------------------------------ claims
\* number of lines OUT_PATH holds after one more append
LenAfterAppend == 1 + (IF out_exists THEN Len(out_lines) ELSE 0)

\* C1 (continuous mode).  Every cycle that passes the stop check appends
\* exactly one line to the log, whatever the outcome (answer, timeout,
\* failure) of the measurement, position and bearing queries, and nothing
\* raised by a query leaves the cycle: from the stop check to the append the
\* cycle only moves from query to query and to the append, the append adds
\* one line, and the lines appended by the run number one per cycle.
C1_LinesCounted ==
  mode = "cont" =>
    /\ pc \in {"send", "recv", "write", "sleep", "loop"} => nsamples = idx
    /\ pc \in {"capture", "cap_fetch", "frame"} => nsamples = idx + 1
C1_CycleStep ==
  (mode = "cont" /\ pc \in {"send", "recv", "write"} /\ q # "idn") =>
    /\ pc' \in {"send", "recv", "write", "capture"}
    /\ (pc = "write" /\ pc' # pc) => pc' = "capture"
    /\ pc' = "capture" => /\ out_exists'
                          /\ Len(out_lines') = LenAfterAppend
                          /\ out_lines'[Len(out_lines')].k = "sample"
    /\ pc' # "capture" => Len(out_lines') <= Len(out_lines)
C2_BothParse ==
  /\ isfinite(extraer_primer_float(resp["meas"]))
  /\ isfinite(extraer_primer_float(resp["comp"]))
C2_SweepStep ==
  /\ (mode = "sweep" /\ pc = "write" /\ pc' # pc) =>
       IF C2_BothParse
       THEN /\ out_exists'
            /\ Len(out_lines') = LenAfterAppend
            /\ out_lines'[Len(out_lines')].k = "pair"
            /\ nsamples' = nsamples + 1
       ELSE UNCHANGED << out_exists, out_lines, nsamples >>
  /\ (mode = "sweep" /\ pc \notin {"write", "header"}) =>
       Len(out_lines') <= Len(out_lines)
C3_RemovalEndsLoop ==
  [][(mode = "cont" /\ removed /\ pc = "loop" /\ pc' # pc) => pc' = "finally"]_vars

\* C4.  The sleep at the end of a cycle is interruptible by the stop signal:
\* once the signal has been raised, the loop spends no more time in the sleep.
C4_SleepInterruptible ==
  [][~(stop_ev /\ pc = "sleep" /\ pc' = "sleep" /\ sleep_left' < sleep_left)]_vars

\* a sampling query in which the engine meets the loss of the connection:
\* a read at end of file, or a write or read on a reset connection
ConnLossSeen ==
  /\ q \in {"meas", "gps", "comp"}
  /\ \/ pc = "recv" /\ peer # "up" /\ rxbuf = <<>>
     \/ pc = "send" /\ peer = "reset"

\* C5.  A connection-level failure of the sampling connection during a query
\* (peer closed the socket, connection reset) propagates out of the cycle and
\* terminates the engine: the query that meets the failure is followed by
\* the shutdown, not by the rest of the cycle.
C5_ConnLossTerminates ==
  [][(ConnLossSeen /\ pc' # pc) => pc' = "finally"]_vars

\* C6.  On every terminal condition (stop signal, log file removed, error in
\* the loop, failure to open the instrument connection) the instrument
\* connection is closed and the cadence listener is stopped when the engine
\* returns.
C6_ReleasedOnReturn ==
  pc \in Terminal => (conn # "open" /\ transport # "open")

\* C7.  The value main() returns distinguishes a normal stop (stop signal or
\* log file removed) from an error stop (exception that ended the sampling
\* loop): the value of a normal stop is returned after a normal stop only.
C7_DispositionDistinguishes ==
  pc = "done" => (ret = "0" <=> cause \in {"stop", "removed"})

\* connections to the instrument that are open
LiveConnections ==
  (IF conn = "open" THEN 1 ELSE 0) + (IF cap_conn = "open" THEN 1 ELSE 0)

\* C8 as stated.  An engine instance holds at most one live connection to
\* the instrument at every moment of a run, the display capture included.
C8_SingleConnection == LiveConnections <= 1
\* C8 as amended.  Besides the sampling connection the engine opens one
\* further connection, in continuous mode, for the display capture of a
\* cycle, and only while the sampling connection is open; it is closed when
\* the capture step ends.  At most two connections are live during a
\* capture and at most one at any other moment.
C8_CaptureConnectionScoped ==
  /\ LiveConnections <= 2
  /\ cap_conn = "open" => (mode = "cont" /\ pc = "cap_fetch" /\ conn = "open")
  /\ pc # "cap_fetch" => LiveConnections <= 1
\* the capture of a cycle holds its own connection next to the sampling one
C8_TwoConnectionsDuringCapture ==
  /\ mode = "cont"
  /\ pc = "cap_fetch"
  /\ conn = "open"
  /\ cap_conn = "open"

\* requests sent on the sampling connection whose response the engine has
\* not consumed: not yet answered, or answered and still in the reader
Outstanding == Len(pending) + Len(rxbuf)

\* C9.  On the sampling connection there is at most one outstanding request
\* at any time, also in cycles in which a read timed out.
C9_OneOutstandingRequest == Outstanding <= 1

\* C10.  The cadence is strictly positive in every reachable state, for any
\* value of SAMPLE_PERIOD and any sequence of datagrams.
C10_CadencePositive == GtZero(PERIODO_S)

\* C11 (continuous mode).  Each end-of-cycle sleep lasts the cadence that is
\* current when the sleep begins: whatever datagrams were accepted earlier
\* in the cycle, the sleep is set up from the value PERIODO_S has at that
\* moment, and a datagram accepted during a sleep changes the cadence but
\* neither the length of the sleep in progress nor the time already slept.
C11_SleepStep ==
  mode = "cont" =>
    /\ (pc # "sleep" /\ pc' = "sleep" /\ PERIODO_S.t = "num") =>
         (PERIODO_S' = PERIODO_S /\ sleep_left' = TicksOf(PERIODO_S))
    /\ (pc = "sleep" /\ PERIODO_S' # PERIODO_S) =>
         (pc' = "sleep" /\ sleep_left' = sleep_left)
    /\ (pc # "sleep" /\ pc' # "sleep" /\ PERIODO_S' # PERIODO_S) =>
         (pc' = pc /\ sleep_left' = sleep_left)
C11_SleepUsesCurrentCadence == [][C11_SleepStep]_vars
\* a sleep begun with the cadence of 5 s is still whole although a datagram
\* has made the cadence 2.5 s in the meantime
C11_DatagramDuringSleep ==
  /\ mode = "cont"
  /\ pc = "sleep"
  /\ sleep_left = TicksOf(Num(DEFAULT_PERIOD_CONT))
  /\ PERIODO_S = Num(250)
  /\ TicksOf(PERIODO_S) < sleep_left

\* the wait for the first fix, and what follows the header write
FixPhase ==
  \/ pc \in {"fix_loop", "fix_eval", "fix_sleep"}
  \/ pc \in {"send", "recv"} /\ q = "fix"
SamplingPhase ==
  \/ pc \in {"loop", "write", "sleep", "finally", "done"}
  \/ pc \in {"send", "recv"} /\ q \in {"meas", "comp"}

\* C12 (sweep mode).  Exactly one header line is written per run, before
\* any sample line and never a second time, however the wait for the fix
\* ends (fix, budget spent, stop signal, file removed): the wait is left
\* for the header write only, the header write appends one header line (the
\* fix, or an empty line without one) while no sample has been written, no
\* other step appends a header line, and the sampling that follows never
\* returns to the wait or to the header write.
C12_HeaderStep ==
  mode = "sweep" =>
    /\ (FixPhase /\ ~FixPhase') => pc' = "header"
    /\ (pc = "header" /\ pc' # pc) =>
         /\ pc' = "loop"
         /\ nsamples = 0
         /\ out_exists'
         /\ Len(out_lines') = LenAfterAppend
         /\ out_lines'[Len(out_lines')].k = "header"
         /\ (out_lines'[Len(out_lines')].a = Absent) <=> ~HasFix(fix0)
    /\ (pc # "header" /\ Len(out_lines') > Len(out_lines)) =>
         out_lines'[Len(out_lines')].k # "header"
    /\ SamplingPhase => SamplingPhase'
    /\ nsamples' # nsamples => SamplingPhase
C13_SweepLogFormat ==
  (mode = "sweep" /\ pc # "boot" /\ out_exists /\ out_lines # <<>>) =>
    /\ out_lines[1].k = "header"
    /\ \A i \in 2..Len(out_lines) : out_lines[i].k = "pair"

\* C14.  If opening the instrument connection fails, the run terminates
\* with a connection error: the failed attempt is followed by nothing (no
\* second attempt, no query, no line), and the run that ended this way has
\* no connection, has sent no request and has appended no line.
C14_ConnectFailed ==
  pc = "raised" =>
    /\ cause = "connect"
    /\ ret = "raised"
    /\ conn = "none"
    /\ cap_conn = "none"
    /\ pending = <<>>
    /\ rxbuf = <<>>
    /\ nsamples = 0
    /\ out_lines = <<>>
C14_ConnectStep ==
  /\ (pc = "connect" /\ pc' # pc) =>
       \/ conn' = "open" /\ pc' = "ready"
       \/ conn' = "none" /\ pc' = "raised"
  /\ pc = "raised" => UNCHANGED << pc, conn, cap_conn, pending, out_lines, nsamples >>
C14_ConnectFailureEndsRun == []C14_ConnectFailed /\ [][C14_ConnectStep]_vars
\* a run ended by the failure to connect
C14_RunEndedUnconnected ==
  /\ pc = "raised"
  /\ cause = "connect"
  /\ conn = "none"

\* C15 (continuous mode).  A failure at any stage of the display capture of
\* a cycle never ends the sampling loop and always leaves a capture
\* artifact for the cycle: the capture step is followed by the frame step of
\* the same cycle, with the artifact of the cycle in place.
C15_CaptureNeverFatal ==
  [][(mode = "cont" /\ pc \in {"capture", "cap_fetch"}) =>
       /\ pc' \in {"capture", "cap_fetch", "frame"}
       /\ pc' = "frame" => idx \in capturas']_vars

\* the offset after the first line terminator past offset k, or the end
LineEndAfter(stream, k) ==
  IF \E i \in (k + 1)..Len(stream) : stream[i] = "\n"
  THEN CHOOSE i \in (k + 1)..Len(stream) :
         stream[i] = "\n" /\ \A j \in (k + 1)..(i - 1) : stream[j] # "\n"
  ELSE Len(stream)
\* the offset after the first line of the stream
LineEnd(stream) == LineEndAfter(stream, 0)
NotBlock(stream) == stream # <<>> /\ stream[1] # "#"

\* C16 as stated: the stream #212HELLOWORLD! is decoded to HELLOWORLD!, and a
\* stream whose first byte is not '#' raises RuntimeError with nothing
\* consumed after the end of its first line.  The first half fails: the
\* stream announces 12 bytes and carries 11.  The second half fails when the
\* first byte is the line terminator: the line after it is read as well.
C16_BlockExamples ==
  op = "_scpi_recv_block" =>
    /\ arg.stream = Hello12 => res.out.st = "ok" /\ res.out.data = Hello
    /\ NotBlock(arg.stream) =>
         res.out.st = "RuntimeError" /\ res.out.pos <= LineEnd(arg.stream)

\* C16 amended: the stream #211HELLOWORLD! is decoded to HELLOWORLD! when its
\* two length digits arrive in one read, and to the single byte "1" when they
\* arrive in two; #212HELLOWORLD! followed by the end of the stream is never
\* decoded to HELLOWORLD!; a stream whose first byte is not '#' raises
\* RuntimeError having consumed that byte and what follows it up to the next
\* line terminator, which is the end of its first line unless the first byte
\* is itself the line terminator.
C16_BlockExamplesAmended ==
  op = "_scpi_recv_block" =>
    /\ arg.stream = Hello11 =>
         res.out = IF 3 \in res.cuts THEN Returned(<<"1">>, 4) ELSE Returned(Hello, 15)
    /\ arg.stream = Hello12 =>
         res.out = IF 3 \in res.cuts THEN Returned(<<"2">>, 4)
                   ELSE Raised("RuntimeError", 15)
    /\ NotBlock(arg.stream) =>
         /\ res.out = Raised("RuntimeError", LineEndAfter(arg.stream, 1))
         /\ arg.stream[1] # "\n" => res.out.pos = LineEnd(arg.stream)
\* the example block arrived in several pieces and was decoded
C16_ExampleDecoded ==
  /\ op = "_scpi_recv_block"
  /\ arg.stream = Hello11
  /\ res.cuts = {2, 7}
  /\ res.out = Returned(Hello, 15)

\* a stream that begins with the header of a block: '#', a digit count n of
\* 1 to 9, and n digits
BlockHeader(stream) ==
  /\ Len(stream) >= 2
  /\ stream[1] = "#"
  /\ stream[2] \in Digits \ {"0"}
  /\ Len(stream) >= 2 + DigitVal(stream[2])
  /\ \A i \in 3..(2 + DigitVal(stream[2])) : stream[i] \in Digits
HeaderLen(stream) == 2 + DigitVal(stream[2])
AnnouncedLen(stream) == DigitsVal(stream, 3, DigitVal(stream[2]))

\* C17: for every stream that begins with a well-formed block header and every
\* way it is split into reads, the reader returns exactly the announced
\* number of payload bytes and consumes exactly header plus payload, and it
\* raises RuntimeError when the stream ends before the payload is complete.
\* Fails when a read boundary falls inside the length digits.
C17_BlockFramed ==
  (op = "_scpi_recv_block" /\ BlockHeader(arg.stream)) =>
    IF Len(arg.stream) >= HeaderLen(arg.stream) + AnnouncedLen(arg.stream)
    THEN res.out = Returned(SubSeq(arg.stream, HeaderLen(arg.stream) + 1,
                                   HeaderLen(arg.stream) + AnnouncedLen(arg.stream)),
                            HeaderLen(arg.stream) + AnnouncedLen(arg.stream))
    ELSE res.out.st = "RuntimeError"

\* the indices from i on of the fields that are one of the marks
MarkersFrom(t, i, marks) == { k \in i..Len(t) : t[k] \in marks }
Least(S) == CHOOSE i \in S : \A j \in S : i <= j
\* the three fields after index i exist and each of them is a number
ThreeNumeric(t, i) ==
  /\ i + 3 <= Len(t)
  /\ \A k \in 1..3 : PyFloat(t[i + k]).t = "num"
\* x is deg + min/60 + sec/3600, negated if neg
IsDmsOf(x, d, m, s, neg) ==
  x = Num((IF neg THEN -1 ELSE 1) * (d.v * 3600 + m.v * 60 + s.v))
IsCoordinate(x, t, i, neg) ==
  IsDmsOf(x, PyFloat(t[i + 1]), PyFloat(t[i + 2]), PyFloat(t[i + 3]), t[i] = neg)
\* what the claim says of the record t with first N/S marker at index i_ns
\* and its E/W markers from i_ns + 4 on at the indices ew
PositionOfMarkers(r, t, i_ns, ew) ==
  IF ~ThreeNumeric(t, i_ns) \/ ew = {} THEN r = NoFix
  ELSE IF ~ThreeNumeric(t, Least(ew)) THEN r = NoFix
  ELSE /\ IsCoordinate(r[1], t, i_ns, TokS)
       /\ IsCoordinate(r[2], t, Least(ew), TokW)
PositionOfRecord(r, t, ns) ==
  IF ns = {} THEN r = NoFix
  ELSE PositionOfMarkers(r, t, Least(ns),
                         MarkersFrom(t, Least(ns) + 4, {TokE, TokW}))

\* C18: parse_gps_data returns both coordinates or (None, None), never one of
\* them; it returns (None, None) when the record has no N/S field, no E/W
\* field four or more fields after the first N/S field, fewer than three
\* fields after either marker, or a field that is not a number among the
\* three after either marker; otherwise the latitude is deg + min/60 +
\* sec/3600 of the three fields after the first N/S field, negated for S, and
\* the longitude likewise after that E/W field, negated for W.  Fails for the
\* fields nan and inf, which float() accepts: the coordinate computed from
\* them is returned.
C18_PositionParsed ==
  op = "parse_gps_data" =>
    /\ res = NoFix \/ (res[1] # None /\ res[2] # None)
    /\ PositionOfRecord(res, arg.tokens, MarkersFrom(arg.tokens, 1, {TokN, TokS}))
\* a coordinate of at most lim degrees either way (units of 1/360000 degree)
WithinDegrees(x, lim) == x.t = "num" /\ 0 - lim * 360000 <= x.v /\ x.v <= lim * 360000

\* C19 as stated: whenever parse_gps_data returns coordinates, the latitude
\* lies in [-90, 90] and the longitude in [-180, 180].  Fails: the fields are
\* not validated, so 91 degrees, or 90 degrees and 59 minutes, are returned
\* as they come.
C19_CoordinatesInRange ==
  (op = "parse_gps_data" /\ res # NoFix) =>
    WithinDegrees(res[1], 90) /\ WithinDegrees(res[2], 180)

\* a well-ordered record whose fields are valid degrees, minutes and seconds:
\* minutes and seconds of at least 0 and less than 60, and degrees with them
\* of at most lim
ValidDms(d, m, s, lim) ==
  /\ d.t = "num" /\ m.t = "num" /\ s.t = "num"
  /\ 0 <= d.v
  /\ 0 <= m.v /\ m.v < 6000
  /\ 0 <= s.v /\ s.v < 6000
  /\ d.v * 3600 + m.v * 60 + s.v <= lim * 360000
ValidFields(t, i, lim) ==
  ValidDms(PyFloat(t[i + 1]), PyFloat(t[i + 2]), PyFloat(t[i + 3]), lim)
ValidRecord(t) ==
  /\ Len(t) = 8
  /\ t[1] \in {TokN, TokS}
  /\ t[5] \in {TokE, TokW}
  /\ ValidFields(t, 1, 90)
  /\ ValidFields(t, 5, 180)
\* the sign of a coordinate agrees with its hemisphere
SignOf(x, negative) == IF negative THEN x.v <= 0 ELSE x.v >= 0

\* C19 amended: for every record of valid degrees, minutes and seconds,
\* parse_gps_data returns a latitude in [-90, 90] and a longitude in
\* [-180, 180], negative or zero for S and W and positive or zero for N and E.
C19_ValidDmsInRange ==
  (op = "parse_gps_data" /\ ValidRecord(arg.tokens)) =>
    /\ res # NoFix
    /\ WithinDegrees(res[1], 90) /\ SignOf(res[1], arg.tokens[1] = TokS)
    /\ WithinDegrees(res[2], 180) /\ SignOf(res[2], arg.tokens[5] = TokW)
\* the south-western corner was parsed to (-90, -180)
C19_CornerParsed ==
  /\ op = "parse_gps_data"
  /\ arg.tokens = <<TokS, <<"9", "0">>, <<"0">>, <<"0">>,
                    TokW, <<"1", "8", "0">>, <<"0">>, <<"0">>>>
  /\ res = <<Num(0 - 90 * 360000), Num(0 - 180 * 360000)>>

\* a numeral begins at index i: a digit, or a minus sign before a digit
StartsNumeral(t, i) ==
  t[i] \in Digits \/ (t[i] = "-" /\ i < Len(t) /\ t[i + 1] \in Digits)
\* the number of digits of t from index i up to the first character that is
\* not a digit
DigitsFrom(t, i) ==
  CHOOSE n \in 0..(Len(t) - i + 1) :
    /\ \A k \in i..(i + n - 1) : t[k] \in Digits
    /\ i + n > Len(t) \/ t[i + n] \notin Digits
\* the numeral has a fraction: a point and a digit follow its ni digits at ds
HasFraction(t, ds, ni) ==
  ds + ni + 1 <= Len(t) /\ t[ds + ni] = "." /\ t[ds + ni + 1] \in Digits
\* the value, in hundredths, of the numeral of sign sg with ni digits at ds
NumeralValue(t, sg, ds, ni) ==
  Num(sg * (DigitsVal(t, ds, ni) * 100
            + (IF HasFraction(t, ds, ni)
               THEN FracVal(t, ds + ni + 1, DigitsFrom(t, ds + ni + 1))
               ELSE 0)))
NumeralValueAt(t, i) ==
  IF t[i] = "-" THEN NumeralValue(t, -1, i + 1, DigitsFrom(t, i + 1))
  ELSE NumeralValue(t, 1, i, DigitsFrom(t, i))
LeftmostNumeral(t) == NumeralValueAt(t, Least({ i \in 1..Len(t) : StartsNumeral(t, i) }))

\* C20: extraer_primer_float returns None exactly when the text has no digit
\* (the empty text included), and otherwise the value of the leftmost signed
\* integer or decimal numeral of the text, whatever surrounds it.
C20_FirstFloat ==
  op = "extraer_primer_float" =>
    /\ res = None <=> ~(\E i \in 1..Len(arg.text) : arg.text[i] \in Digits)
    /\ res # None => res = LeftmostNumeral(arg.text)
\* a negative decimal numeral between other characters was read
C20_NegativeDecimalRead ==
  /\ op = "extraer_primer_float"
  /\ arg.text = <<"x", "-", "7", ".", "7">>
  /\ res = Num(-770)

\* the text contains a numeral
HasNumeral(t) == \E i \in 1..Len(t) : t[i] \in Digits
\* the last line of the log after the step
LastWritten == out_lines'[Len(out_lines')]
\* the power, in hundredths of dBm, of the reading in the response t
PowerOf(t) == LeftmostNumeral(t).v - 10700

\* C21: the power recorded by a cycle is the numeral of its measurement
\* response minus 107; a continuous cycle whose measurement response has no
\* numeral records nan, a sweep cycle whose measurement response has no
\* numeral records nothing, and neither records a number in its place.
C21_PowerStep ==
  (pc = "write" /\ pc' # "write") =>
    IF mode = "cont"
    THEN /\ Len(out_lines') > 0
         /\ LastWritten.a = IF HasNumeral(resp["meas"])
                            THEN [f |-> "repr", dec |-> 2, n |-> PowerOf(resp["meas"])]
                            ELSE Literal("nan")
    ELSE IF nsamples' # nsamples
         THEN /\ HasNumeral(resp["meas"])
              /\ LastWritten.b = [f |-> "fixed", dec |-> 2, n |-> PowerOf(resp["meas"])]
         ELSE out_lines' = out_lines
C21_PowerRecorded == [][C21_PowerStep]_vars
\* a continuous cycle recorded -49.5 dBm for the reading 57.5
C21_ReadingRecorded ==
  /\ mode = "cont"
  /\ Len(out_lines) = 1
  /\ out_lines[1].k = "sample"
  /\ out_lines[1].a = [f |-> "repr", dec |-> 2, n |-> -4950]

\* a numeral with one decimal: optional minus, digits, a point, one digit
OneDecimalBody(t) ==
  /\ Len(t) >= 3
  /\ DigitRun(t, 1) = Len(t) - 2
  /\ t[Len(t) - 1] = "."
  /\ t[Len(t)] \in Digits
OneDecimal(t) ==
  IF t # <<>> /\ Head(t) = "-" THEN OneDecimalBody(Tail(t)) ELSE OneDecimalBody(t)
\* the fields of a text: what lies between its commas C
CommasOf(t) == {i \in 1..Len(t) : t[i] = ","}
NthComma(C, k) == CHOOSE i \in C : Cardinality({j \in C : j < i}) = k - 1
FieldsBetween(t, C) ==
  [k \in 1..(Cardinality(C) + 1) |->
     SubSeq(t, IF k = 1 THEN 1 ELSE NthComma(C, k - 1) + 1,
               IF k = Cardinality(C) + 1 THEN Len(t) ELSE NthComma(C, k) - 1)]
\* what the claim says of the fields of a line written from the responses r
SixFields(fields, r) ==
  /\ Len(fields) = 6
  /\ fields[1] = T_FECHA /\ fields[2] = T_HORA
  /\ ~HasNumeral(r["meas"]) => fields[3] = <<"n", "a", "n">>
  /\ IF HasNumeral(r["comp"]) THEN OneDecimal(fields[4])
     ELSE fields[4] = WordText("no directivo")
  /\ parse_gps_data(r["gps"]) = NoFix => (fields[5] = <<>> /\ fields[6] = <<>>)

\* C22: every line appended to the continuous log has six comma-separated
\* fields (date, time, power, bearing, latitude, longitude): a missing power is
\* written as nan, the bearing is a numeral with one decimal when the bearing
\* response has a number and the words "no directivo" otherwise, and missing
\* coordinates are written as empty fields.
C22_LineStep ==
  (mode = "cont" /\ pc = "write" /\ pc' # "write") =>
    /\ Len(out_lines') > 0
    /\ \A t \in {LineText(LastWritten)} :
         \A fields \in {FieldsBetween(t, CommasOf(t))} : SixFields(fields, resp)
C22_SixFieldLines == [][C22_LineStep]_vars
\* a line without any value was written: nan, the words, two empty fields
C22_EmptyLineWritten ==
  /\ mode = "cont"
  /\ Len(out_lines) = 1
  /\ out_lines[1].k = "sample"
  /\ Split(LineText(out_lines[1])) =
       <<T_FECHA, T_HORA, <<"n", "a", "n">>, WordText("no directivo"), <<>>, <<>>>>
\* a line with every value was written
C22_FullLineWritten ==
  /\ mode = "cont"
  /\ Len(out_lines) = 1
  /\ out_lines[1].k = "sample"
  /\ Split(LineText(out_lines[1])) =
       <<T_FECHA, T_HORA, <<"-", "4", "9", ".", "5">>, <<"1", "2", "3", ".", "4">>,
         <<"4", "8", ".", "1", "2", "7", "8", "6", "9">>,
         <<"1", "1", ".", "6", "1", "3", "1", "7", "2">>>>

\* a non-negative decimal numeral: digits 0 to 9, optionally a point and digits
NumeralShaped(t) ==
  \E n \in 1..Len(t) :
    /\ \A k \in 1..n : t[k] \in Digits
    /\ \/ n = Len(t)
       \/ /\ n + 1 < Len(t)
          /\ t[n + 1] = "."
          /\ \A k \in (n + 2)..Len(t) : t[k] \in Digits

\* C23: when the input, trimmed and with its commas replaced by points, is not
\* a non-negative decimal numeral, the frequency change fails with a
\* validation error (ValueError, or the answer 400 of the route) before any
\* I/O: no connection is opened and no command is sent.  Fails for digits that
\* are not ASCII, which the pattern \d accepts.
C23_InvalidRejected ==
  (/\ arg.f \in {"cambiar_frecuencia", "enviar_comando_frecuencia"}
   /\ op # "none"
   /\ ~NumeralShaped(NormalFreq(arg.text))) =>
    /\ res.out.kind \in {"ValueError", "400"}
    /\ res.conn = "none"
    /\ res.sent = <<>>

\* C24: with a valid input the frequency change writes, on its own connection
\* and in this order, *CLS, FREQ <input>MHz and FREQ?, and then returns the
\* line the instrument echoes, or "OK" when no echo arrives within the read
\* timeout, closing its connection.  Fails: when the read times out the
\* operation raises TimeoutError instead of returning "OK".
C24_ReadStep ==
  (op = "freq_read" /\ op' = "freq_done" /\ NumeralShaped(NormalFreq(arg.text))) =>
    /\ res.conn = "open"
    /\ res.sent = << T_CLS,
                     <<"F", "R", "E", "Q", " ">> \o NormalFreq(arg.text) \o <<"M", "H", "z">>,
                     T_FREQ_ECHO >>
    /\ res'.sent = res.sent
    /\ res'.conn = "closed"
    /\ res'.out.kind = "return"
    /\ res'.out.text = T_OK \/ \E line \in Echoes : res'.out.text = Strip(line)
C24_EchoOrOK == [][C24_ReadStep]_vars

\* the continuous log while nothing outside the engine has touched it: the
\* lines of the cycles so far and nothing else, and every earlier cycle's
\* line there while a query of the current cycle is under way
C25_LogOfThisRun ==
  (mode = "cont" /\ ~removed /\ pc # "boot") =>
    /\ out_exists
    /\ Len(out_lines) = nsamples
    /\ \A i \in 1..Len(out_lines) : out_lines[i].k = "sample"
    /\ (pc \in {"send", "recv"} /\ q \in {"meas", "gps", "comp"}) => Len(out_lines) = idx
    /\ pc \in {"capture", "cap_fetch", "frame"} => Len(out_lines) = idx + 1
\* the log changes only by being emptied at the start and by the append of
\* the line of the current cycle
C25_LogStep ==
  (mode = "cont" /\ ~removed') =>
    \/ out_lines' = out_lines
    \/ pc = "boot" /\ out_lines' = <<>>
    \/ pc = "write" /\ out_lines' = Append(out_lines, ContLine(resp))
C26_BindStep ==
  mode = "cont" =>
    /\ (pc = "udp" /\ pc' # "udp" /\ transport' # "open") =>
         (pc' = "connect" /\ cause' = cause /\ ret' = ret /\ transport' = "none")
    /\ (pc # "udp" /\ transport # "open") => transport' # "open"
    /\ transport # "open" => PERIODO_S' = PERIODO_S
C26_RunsWithoutListener == [][C26_BindStep]_vars
\* a run without listener has connected, completed a cycle and is asleep
C26_CycleWithoutListener ==
  /\ mode = "cont"
  /\ transport = "none"
  /\ conn = "open"
  /\ pc = "sleep"
  /\ idx = 1
  /\ nsamples = 1

\* C27: the set-up commands are written in the one step that leaves READY,
\* before any query: the clear command, then the format command, then the
\* frequency-set command exactly when one is configured, each once and all
\* of them unless the connection fails under the writes; that step never
\* ends the run; and no later step writes a set-up command again.
IsPrefix(s, t) == Len(s) <= Len(t) /\ SubSeq(t, 1, Len(s)) = s
Count(s, x) == Cardinality({i \in 1..Len(s) : s[i] = x})
BeforeReady == {"boot", "udp", "connect", "ready"}
C27_SetupStep ==
  /\ (pc = "ready" /\ pc' # "ready") =>
       /\ q = "none" /\ idx = 0 /\ nsamples = 0 /\ pending = <<>> /\ setup = <<>>
       /\ pc' \notin BeforeReady \union Terminal
       /\ cause' = cause /\ ret' = ret
       /\ IsPrefix(setup', SetupCommands)
       /\ peer' # "reset" => setup' = SetupCommands
       /\ Count(setup', "freq") = (IF cmd_freq THEN 1 ELSE 0) \/ peer' = "reset"
  /\ (pc # "ready" \/ pc' = "ready") => setup' = setup
  /\ pc \notin BeforeReady => pc' \notin BeforeReady
  /\ (q' # "none" \/ pending' # <<>>) => pc' \notin BeforeReady
C27_SetupOnceBeforeQueries == [][C27_SetupStep]_vars
\* the three set-up commands were written and the first measurement query
\* of the first cycle is about to be sent
C27_FrequencySetBeforeMeasure ==
  /\ cmd_freq
  /\ setup = <<"cls", "fmt", "freq">>
  /\ pc = "send"
  /\ q = "meas"
  /\ idx = 0
  /\ nsamples = 0

\* C28: the sampling connection is written and read by main() alone.  A step
\* that changes the cadence (a handled datagram) changes nothing else: not
\* the connection, not the log, not the cycle index.  A step of the
\* frequency change leaves every variable of the engine as it is and writes
\* only to the connection the operation opened itself.  A step that writes to
\* the sampling connection or reads from it is a step of main() at its
\* set-up or inside a query, and it changes neither the cadence nor the
\* frequency change.
EngineRest == << mode, cmd_idn, cmd_freq, setup, pc, q, GPS_WAIT_S, stop_ev, out_exists, out_lines,
                 conn, peer, transport, cap_conn, pending, rxbuf, resp, idx,
                 sleep_left, elapsed, fix0, capturas, frames, cause, ret, nlate,
                 nsamples, removed >>
WritesSampling == setup' # setup \/ Len(pending') > Len(pending)
ReadsSampling == rxbuf # <<>> /\ rxbuf' = Tail(rxbuf)
C28_FrameStep ==
  /\ PERIODO_S' # PERIODO_S =>
       /\ transport = "open"
       /\ UNCHANGED << EngineRest, op, arg, res >>
  /\ (op' # op \/ res' # res) =>
       /\ UNCHANGED evars
       /\ res'.sent # res.sent => (res.conn = "open" /\ res'.conn = "open")
  /\ (WritesSampling \/ ReadsSampling) =>
       /\ pc \in {"ready", "send", "recv"}
       /\ UNCHANGED << PERIODO_S, op, arg, res >>
C28_OnlyMainUsesConnection == [][C28_FrameStep]_vars
\* a datagram has changed the cadence and the frequency change has written
\* its three lines on its own connection while a query of the engine waits
\* for its answer on the sampling connection
C28_BothConnectionsInUse ==
  /\ transport = "open"
  /\ PERIODO_S # InitialPeriod(mode, <<>>)
  /\ op = "freq_read"
  /\ res.conn = "open"
  /\ Len(res.sent) = 3
  /\ conn = "open"
  /\ pc = "recv"
  /\ pending # <<>>
  /\ setup = <<"cls", "fmt", "freq">>

\* the text without its leading and trailing whitespace
IsBlank(t) == \A k \in 1..Len(t) : t[k] \in Spaces
FirstInk(t) == CHOOSE i \in 1..Len(t) : t[i] \notin Spaces /\ \A j \in 1..(i - 1) : t[j] \in Spaces
LastInk(t) == CHOOSE i \in 1..Len(t) : t[i] \notin Spaces /\ \A j \in (i + 1)..Len(t) : t[j] \in Spaces
Trimmed(t) == SubSeq(t, FirstInk(t), LastInk(t))
\* the command at position n of the catalog, or the default
AtPosition(catalog, n, default) ==
  IF catalog.kind = "present" /\ n < Len(catalog.commands)
     /\ ~IsBlank(catalog.commands[n + 1])
  THEN Trimmed(catalog.commands[n + 1])
  ELSE default
ByPosition(catalog) ==
  << AtPosition(catalog, 2, DefaultMeasure), AtPosition(catalog, 3, DefaultGps),
     AtPosition(catalog, 4, DefaultCompass) >>

\* C29: for every catalog the measurement, position and bearing commands a
\* variant selects are the trimmed entries at positions 2, 3 and 4 where
\* such an entry exists and is not blank, and the defaults of the three
\* queries elsewhere, also when the catalog is unreadable or has no entry
\* for the instrument; the two acquisition variants select the same three
\* commands for the same catalog.
C29_CommandsByPosition ==
  /\ op \in {"get_cmd", "obtener_comandos_pr100"} => res = ByPosition(arg.catalog)
  /\ op # "none" => SelectCommands(arg.catalog) = obtener_comandos_pr100(arg.catalog)
\* a catalog of five entries whose entry 2 is a padded command, entry 3 is
\* blank and entry 4 is a padded capture command, selected by Pr100.py
C29_MixedCatalogSelected ==
  /\ op = "get_cmd"
  /\ arg.catalog.kind = "present"
  /\ Len(arg.catalog.commands) = 5
  /\ arg.catalog.commands[3] = E_CMD
  /\ arg.catalog.commands[4] = E_BLANK
  /\ arg.catalog.commands[5] = E_FETCH
  /\ res[1] = <<"A", "?">>
  /\ res[2] = DefaultGps
  /\ res[3] # DefaultCompass

\* the configured capture index names an entry of the catalog: it is an
\* integer, a position of the list, and the entry there is not blank
NamesEntry(cmds, i) ==
  /\ i # ValueError
  /\ 0 <= i.v /\ i.v < Len(cmds)
  /\ ~IsBlank(cmds[i.v + 1])
IndexNamesEntry(cmds, env) == env.set /\ NamesEntry(cmds, IntOfStr(env.text))
\* the entry, upper-cased and with its spaces removed, contains the key
MatchesFetch(c) == Contains(RemoveSpaces(Upper(c)), T_FETCH_KEY)
FirstMatch(cmds) ==
  CHOOSE k \in 1..Len(cmds) :
    MatchesFetch(cmds[k]) /\ \A j \in 1..(k - 1) : ~MatchesFetch(cmds[j])
CaptureByPriority(cmds, env, default) ==
  IF IndexNamesEntry(cmds, env) THEN Trimmed(cmds[IntOfStr(env.text).v + 1])
  ELSE IF \E k \in 1..Len(cmds) : MatchesFetch(cmds[k]) THEN Trimmed(cmds[FirstMatch(cmds)])
  ELSE default

\* C30: the capture command is chosen in three tiers: the trimmed entry at
\* the configured capture index when that index names an existing entry that
\* is not blank, whatever the other entries are; otherwise the first entry
\* that, upper-cased and with its spaces removed, contains
\* DISPLAY:WINDOW:FETCH?; otherwise the default capture command.  Fails for a
\* negative index, which names no entry and yet selects one from the end of
\* the list.
C30_CaptureByPriority ==
  op = "find_capture_cmd" =>
    res = CaptureByPriority(obtener_comandos_por_equipo(arg.catalog), arg.env,
                            DefaultCapture)

\* C31: when the stop event is set or the log file is missing at the stop
\* check that opens a cycle, the loop is left in that step: the sampling loop
\* of either mode goes to its finally block and the position polling loop to
\* the header write, and the step sends no query, appends no line and
\* produces no capture or frame.
C31_StopStep ==
  (pc \in {"loop", "fix_loop"} /\ pc' # pc /\ (stop_ev \/ ~out_exists)) =>
    /\ pc' = (IF pc = "loop" THEN "finally" ELSE "header")
    /\ q = "none" /\ q' = "none"
    /\ UNCHANGED << pending, rxbuf, out_exists, out_lines, nsamples, idx, capturas,
                    frames, cap_conn, setup >>
C31_StopCheckEndsLoop == [][C31_StopStep]_vars
\* a continuous run was stopped at the stop check of its second cycle, after
\* one complete cycle
C31_StoppedAtSecondCycle ==
  /\ mode = "cont"
  /\ pc = "finally"
  /\ cause = "stop"
  /\ idx = 1
  /\ nsamples = 1
  /\ capturas = {0}
  /\ frames = {0}

\* C32 (sweep mode): once the log file is missing in AWAITING_FIX after a
\* removal from outside, the engine goes to its end without a sweep sample:
\* no step creates the file again, and the engine leaves the wait only for
\* the header position, the stop check and the finally block, never for a
\* query of a sampling cycle.  Fails at the header write, which opens the
\* file for appending.
C32_RemovalStep ==
  (/\ mode = "sweep" /\ removed /\ ~out_exists /\ nsamples = 0
   /\ (FixPhase \/ pc \in {"header", "loop"})) =>
    /\ ~out_exists'
    /\ nsamples' = 0
    /\ pc' \in {"header", "loop", "finally"} \/ (FixPhase')
C32_RemovalInFixEndsRun == [][C32_RemovalStep]_vars

\* C33 (sweep mode): the wait for the first fix always ends.  A poll that is
\* not stopped at its check sends the position query, whatever the budget
\* and the time spent; after the answer the wait is left at once when the
\* answer holds a fix, with that fix kept for the header also when the
\* budget is spent, and otherwise when the budget is spent, and it goes on
\* to the next poll in no other case; the header written is that of the fix
\* kept; and every wait is followed by the header write.
C33_PollStep ==
  /\ (pc = "fix_loop" /\ pc' # pc /\ ~stop_ev /\ out_exists) =>
       (pc' = "send" /\ q' = "fix")
  /\ (pc = "fix_eval" /\ pc' # pc) =>
       /\ HasFix(parse_gps_data(resp["gps"])) =>
            (pc' = "header" /\ fix0' = parse_gps_data(resp["gps"]))
       /\ ~HasFix(parse_gps_data(resp["gps"])) =>
            /\ fix0' = fix0
            /\ pc' = (IF elapsed >= GPS_WAIT_S THEN "header" ELSE "fix_sleep")
  /\ (FixPhase /\ ~FixPhase') => pc' = "header"
  /\ (pc = "header" /\ pc' # pc) =>
       (Len(out_lines') > 0 /\ LastWritten = HeaderLine(fix0))
C33_FixWaitEnds == [][C33_PollStep]_vars /\ (FixPhase ~> pc = "header")
\* with no wait budget at all, the one poll of the wait obtained a fix, and
\* the header is about to be written with it
C33_FixOfOnlyPoll ==
  /\ GPS_WAIT_S = 0
  /\ pc = "header"
  /\ HasFix(fix0)
  /\ ~stop_ev
  /\ out_exists

\* C34 (both modes): once the stop signal is raised on a run whose
\* connection is open, the run closes the connection and returns 0.  (A run
\* held at the query of a cycle beyond the last one explored is left out.)
BeyondLastCycle == pc = "send" /\ q \notin {"idn", "fix"} /\ idx >= MaxCycles
C34_StopEndsRun ==
  (stop_ev /\ conn = "open") ~> ((pc = "done" /\ conn = "closed" /\ ret = "0") \/ BeyondLastCycle)
\* the same with the sleeps that never end left out
C34_StopEndsFiniteSleep ==
  (stop_ev /\ conn = "open") ~>
     ((pc = "done" /\ conn = "closed" /\ ret = "0") \/ BeyondLastCycle \/ sleep_left = Forever)
\* the signal arrived in a sleep whose timer never fires
C34_AsleepForever ==
  /\ stop_ev /\ conn = "open" /\ pc = "sleep" /\ sleep_left = Forever
  /\ PERIODO_S.t = "inf"

\* C35 (both modes): the line a read of the sampling connection consumes is
\* the instrument's answer to the query that read belongs to: the answer to
\* the request of the same field, sent in the same cycle.
C35_ConsumeStep ==
  (pc = "recv" /\ rxbuf # <<>> /\ pc' # "recv") =>
    /\ Head(rxbuf).kind = ReqKind(q)
    /\ Head(rxbuf).cyc = idx
C35_AnswerOfOwnQuery == [][C35_ConsumeStep]_vars

\* C36 (continuous mode): at every cycle boundary idx is the number of lines
\* appended in the run, and the captures and the frames on disk are those
\* numbered 0 .. idx-1, one of each per completed cycle, whether the real
\* capture succeeded or the fallback card was drawn; and the line of cycle k
\* is appended at the 0-based position k of the log.
CycleBoundary == mode = "cont" /\ pc \in {"loop", "sleep"}
C36_Counted ==
  CycleBoundary =>
    /\ idx = nsamples
    /\ capturas = 0..(idx - 1)
    /\ frames = 0..(idx - 1)
C36_AppendStep ==
  (mode = "cont" /\ pc = "write" /\ pc' # pc) =>
    /\ Len(out_lines') >= 1
    /\ Len(out_lines') - 1 = idx
C36_IndexAligned == []C36_Counted /\ [][C36_AppendStep]_vars
\* the counting alone
C36_ArtifactsCounted == []C36_Counted
\* the position of the line, as long as the log was not removed
C36_AppendStepKept == [][removed' \/ C36_AppendStep]_vars

\* C37 (continuous mode): the line written for a cycle whose position
\* answer parse_gps_data turned into res has its latitude and longitude
\* fields both empty or both filled, whatever the answer was.
LineWithPosition(pos) == LineOf(CycleValuesOf(None, pos, None))
C37_BothOrNeither ==
  op = "parse_gps_data" =>
    \A ln \in {LineWithPosition(res)} : (ln.c = Absent) <=> (ln.d = Absent)

\* C38 (sweep mode): while a sweep run awaits the instrument or sleeps, a
\* cadence datagram can be received, and a sleep that begins afterwards
\* lasts the cadence the datagrams have set.
C38_SweepReceivesCadence ==
  (mode = "sweep" /\ conn = "open" /\ pc \in AwaitPcs) => ENABLED Datagram
\* what holds instead: the cadence of a sweep run never changes
C38_SweepCadenceFixed == [][mode = "sweep" => PERIODO_S' = PERIODO_S]_vars

\* C39: whatever start and stop requests the server is sent, at most one
\* Pr100.py is sampling at any time; a start request served while a Pr100.py
\* is sampling is rejected; and when a stop request has been served no
\* Pr100.py started before it is sampling.
C39_RequestStep ==
  nreq' = nreq + 1 =>
    /\ (reply' \in {"started", "rejected"} /\ engines # {}) => reply' = "rejected"
    /\ reply' = "stopped" => engines' = {}
C39_OneEngine == [](Cardinality(engines) <= 1) /\ [][C39_RequestStep]_vars
\* the parts of the statement, one by one
C39_AtMostOne == Cardinality(engines) <= 1
C39_StartRejected ==
  [][(nreq' = nreq + 1 /\ reply' \in {"started", "rejected"} /\ engines # {}) =>
       reply' = "rejected"]_vars
C39_StopStops == [][(nreq' = nreq + 1 /\ reply' = "stopped") => engines' = {}]_vars
\* what the server does guarantee: a start is rejected while the Main.py of
\* the last start is still a process
C39_RejectedWhileMainRuns ==
  [][(nreq' = nreq + 1 /\ reply' \in {"started", "rejected"}) =>
       (reply' = "rejected" <=> MainRunning)]_vars

====
